---------------------------- MODULE Spec2Model ----------------------------
(***************************************************************************)
(* Palladium consensus core: the difficulty engine (pow.cpp), the block    *)
(* and header model (primitives/block.h) and the mining RPCs that mediate  *)
(* between miners and the validator (rpc/mining.cpp).                      *)
(*                                                                         *)
(* Two specifications share the variables:                                 *)
(*   Spec     the node: block index, chain tip, template cache and the     *)
(*            RPC calls submitblock, submitheader and getblocktemplate;    *)
(*   PowSpec  the difficulty engine applied to predecessor indexes drawn   *)
(*            from bounded sets.                                           *)
(***************************************************************************)
EXTENDS Integers, Sequences, FiniteSets, TLC

(***************************************************************************)
(* arith_uint256: an unsigned 256-bit integer, held as 64 hexadecimal      *)
(* digits, least significant first.  Arithmetic is modulo 2^256 as in the  *)
(* C++ class: a carry out of the top digit is dropped.                     *)
(***************************************************************************)
WIDTH == 64

Zero256 == [i \in 1..WIDTH |-> 0]

\* Op applied to the value of x: x is worked out once, before Op runs
With(x, Op(_)) == CHOOSE r \in { Op(v) : v \in {x} } : TRUE

\* base_uint(uint64_t b), for b below 2^31 (eight hexadecimal digits)
FromInt(n) ==
    With(n, LAMBDA v :
         [i \in 1..WIDTH |-> IF i <= 8 THEN (v \div 16 ^ (i - 1)) % 16 ELSE 0])

\* GetLow64() of a value below 2^24
Low24(a) ==
    With(a, LAMBDA v : v[1] + 16 * v[2] + 256 * v[3] + 4096 * v[4]
                       + 65536 * v[5] + 1048576 * v[6])

(***************************************************************************)
(* The digit loops of the arithmetic operators run from one end of the     *)
(* number to the other with a carry.  Each is written over a range lo..hi  *)
(* of digits that is split in halves, the carry of the first half entering *)
(* the second: the digits are visited in the order of the C++ loop.        *)
(***************************************************************************)

\* operator+=: digits lo..hi of a + b and the carry out, for a carry in
RECURSIVE AddRange(_, _, _, _, _)
AddRange(a, b, lo, hi, carry) ==
    IF lo = hi
    THEN With(a[lo] + b[lo] + carry,
              LAMBDA s : [digits |-> << s % 16 >>, carry |-> s \div 16])
    ELSE With(AddRange(a, b, lo, (lo + hi) \div 2, carry), LAMBDA l :
         With(AddRange(a, b, (lo + hi) \div 2 + 1, hi, l.carry), LAMBDA h :
              [digits |-> l.digits \o h.digits, carry |-> h.carry]))

Add256(a, b) ==
    With(<<a, b>>, LAMBDA v : AddRange(v[1], v[2], 1, WIDTH, 0).digits)

\* operator*=(uint32_t b32), for b32 below 2^27
RECURSIVE MulRange(_, _, _, _, _)
MulRange(a, m, lo, hi, carry) ==
    IF lo = hi
    THEN With(a[lo] * m + carry,
              LAMBDA s : [digits |-> << s % 16 >>, carry |-> s \div 16])
    ELSE With(MulRange(a, m, lo, (lo + hi) \div 2, carry), LAMBDA l :
         With(MulRange(a, m, (lo + hi) \div 2 + 1, hi, l.carry), LAMBDA h :
              [digits |-> l.digits \o h.digits, carry |-> h.carry]))

Mul256(a, m) ==
    With(<<a, m>>, LAMBDA v : MulRange(v[1], v[2], 1, WIDTH, 0).digits)

\* operator/= by a divisor below 2^30: long division from the top digit,
\* each digit taken one bit at a time so the running remainder stays small
DivBit(st, bit, d) ==
    With(2 * st.rem + bit,
         LAMBDA r : IF r >= d THEN [rem |-> r - d, q |-> 2 * st.q + 1]
                    ELSE [rem |-> r, q |-> 2 * st.q])

DivDigit(rem, digit, d) ==
    With(DivBit([rem |-> rem, q |-> 0], (digit \div 8) % 2, d), LAMBDA s1 :
    With(DivBit(s1, (digit \div 4) % 2, d), LAMBDA s2 :
    With(DivBit(s2, (digit \div 2) % 2, d), LAMBDA s3 :
         DivBit(s3, digit % 2, d))))

\* digits lo..hi of a / d and the remainder left, for the remainder rem
\* brought down from the digits above hi
RECURSIVE DivRange(_, _, _, _, _)
DivRange(a, d, lo, hi, rem) ==
    IF lo = hi
    THEN With(DivDigit(rem, a[lo], d),
              LAMBDA st : [digits |-> << st.q >>, rem |-> st.rem])
    ELSE With(DivRange(a, d, (lo + hi) \div 2 + 1, hi, rem), LAMBDA h :
         With(DivRange(a, d, lo, (lo + hi) \div 2, h.rem), LAMBDA l :
              [digits |-> l.digits \o h.digits, rem |-> l.rem]))

Div256(a, d) ==
    With(<<a, d>>, LAMBDA v : DivRange(v[1], v[2], 1, WIDTH, 0).digits)

\* CompareTo: -1, 0 or 1, decided by the highest digit that differs
CmpAt(a, b, D) ==
    IF D = {} THEN 0
    ELSE With(CHOOSE i \in D : \A k \in D : k <= i,
              LAMBDA i : IF a[i] < b[i] THEN -1 ELSE 1)

Cmp256(a, b) ==
    With(<<a, b>>,
         LAMBDA v : CmpAt(v[1], v[2], {i \in 1..WIDTH : v[1][i] # v[2][i]}))
Gt256(a, b) == Cmp256(a, b) = 1
Le256(a, b) == Cmp256(a, b) <= 0
Lt256(a, b) == Cmp256(a, b) = -1

\* operator<<= and operator>>= by whole hexadecimal digits
ShiftLeft(a, n) ==
    With(<<a, n>>,
         LAMBDA v : [i \in 1..WIDTH |-> IF i - v[2] >= 1 THEN v[1][i - v[2]] ELSE 0])
ShiftRight(a, n) ==
    With(<<a, n>>,
         LAMBDA v : [i \in 1..WIDTH |-> IF i + v[2] <= WIDTH THEN v[1][i + v[2]] ELSE 0])

\* the number of significant digits
TopDigit(a) ==
    With({i \in 1..WIDTH : a[i] # 0},
         LAMBDA D : IF D = {} THEN 0 ELSE CHOOSE i \in D : \A k \in D : k <= i)

\* (bits() + 7) / 8: the number of significant bytes
ByteSize(a) == With(a, LAMBDA v : (TopDigit(v) + 1) \div 2)

(***************************************************************************)
(* The compact target codec.  A compact value is nSize * 2^24 + the low 24 *)
(* bits (sign bit 0x00800000 and 23-bit mantissa); the model holds values  *)
(* whose size byte is below 0x80.                                          *)
(***************************************************************************)
CompactSize(nCompact) == nCompact \div 16777216
CompactSign(nCompact) == (nCompact \div 8388608) % 2 = 1

\* nWord of SetCompact: the mantissa, shifted down when nSize <= 3
CompactWord(nCompact) ==
    IF CompactSize(nCompact) <= 3
    THEN (nCompact % 8388608) \div (256 ^ (3 - CompactSize(nCompact)))
    ELSE nCompact % 8388608

\* arith_uint256::SetCompact(nCompact, &fNegative, &fOverflow)
SetCompact(nCompact) ==
    With(<<CompactSize(nCompact), CompactWord(nCompact), CompactSign(nCompact)>>,
         LAMBDA v :
           [value |-> IF v[1] <= 3 THEN FromInt(v[2])
                      ELSE ShiftLeft(FromInt(v[2]), 2 * (v[1] - 3)),
            fNegative |-> v[2] # 0 /\ v[3],
            fOverflow |-> v[2] # 0 /\ (v[1] > 34
                                       \/ (v[2] > 255 /\ v[1] > 33)
                                       \/ (v[2] > 65535 /\ v[1] > 32))])

\* the target of a compact value, flags dropped: bn.SetCompact(nBits)
Target(nCompact) == SetCompact(nCompact).value

\* nCompact of GetCompact for nSize significant bytes, before the sign fix
CompactOf(a, nSize) ==
    IF nSize <= 3 THEN Low24(a) * (256 ^ (3 - nSize))
    ELSE Low24(ShiftRight(a, 2 * (nSize - 3)))

\* arith_uint256::GetCompact() of a non-negative value
GetCompact(a) ==
    With(a, LAMBDA v :
    With(ByteSize(v), LAMBDA nSize :
    With(CompactOf(v, nSize), LAMBDA nWord :
         IF nWord >= 8388608
         THEN (nWord \div 256) + (nSize + 1) * 16777216
         ELSE nWord + nSize * 16777216)))

(***************************************************************************)
(* Consensus::Params and the three shipped parameter sets.                 *)
(***************************************************************************)
MAX_BLOCK_HEIGHT == 2147483647

\* uint256S("00000000ffff...ff") and uint256S("7fff...ff")
MainPowLimit == [i \in 1..WIDTH |-> IF i <= 56 THEN 15 ELSE 0]
RegTestPowLimit == [i \in 1..WIDTH |-> IF i = WIDTH THEN 7 ELSE 15]

\* Params(): what the constructor leaves in the fields no network sets
DefaultParams ==
    [network |-> "none",
     powLimit |-> Zero256,
     fPowAllowMinDifficultyBlocks |-> FALSE,
     fPowNoRetargeting |-> FALSE,
     nPowTargetSpacing |-> 0,
     nPowTargetSpacingV2 |-> 0,
     nPowTargetTimespan |-> 0,
     nAuxpowStartHeight |-> MAX_BLOCK_HEIGHT]

CMainParams ==
    [DefaultParams EXCEPT
        !.network = "main",
        !.powLimit = MainPowLimit,
        !.nPowTargetTimespan = 24 * 60 * 60,
        !.nPowTargetSpacing = 10 * 60,
        !.nPowTargetSpacingV2 = 2 * 60,
        !.fPowAllowMinDifficultyBlocks = FALSE,
        !.fPowNoRetargeting = FALSE]

CTestNetParams ==
    [DefaultParams EXCEPT
        !.network = "test",
        !.powLimit = MainPowLimit,
        !.nPowTargetTimespan = 24 * 60 * 60,
        !.nPowTargetSpacing = 2 * 60,
        !.fPowAllowMinDifficultyBlocks = TRUE,
        !.fPowNoRetargeting = FALSE]

CRegTestParams ==
    [DefaultParams EXCEPT
        !.network = "regtest",
        !.powLimit = RegTestPowLimit,
        !.nPowTargetTimespan = 24 * 60 * 60,
        !.nPowTargetSpacing = 2 * 60,
        !.fPowAllowMinDifficultyBlocks = TRUE,
        !.fPowNoRetargeting = TRUE]

ShippedParams == {CMainParams, CTestNetParams, CRegTestParams}

\* Params::DifficultyAdjustmentInterval(nHeight)
LwmaHeight == 29000

DifficultyAdjustmentInterval(params, nHeight) ==
    IF nHeight < LwmaHeight
    THEN params.nPowTargetTimespan \div params.nPowTargetSpacing
    ELSE params.nPowTargetTimespan \div params.nPowTargetSpacingV2

(***************************************************************************)
(* CBlockIndex.  A predecessor index is the tip of a chain of ancestors;   *)
(* the chain is described by its tip (nHeight, nTime, nBits) and by how    *)
(* the ancestors were mined: the tip came lastGap seconds after its        *)
(* predecessor, earlier blocks `spacing` seconds apart; ancestors on a     *)
(* legacy retarget boundary carry baseBits and the others fillBits.  The   *)
(* ancestor at height dipAt is stamped dip seconds early, and the lookup   *)
(* of the ancestors at the heights missing[1]..missing[2] fails.           *)
(***************************************************************************)
NullIndex == [isNull |-> TRUE]

AncestorTime(c, h) ==
    IF h = c.nHeight THEN c.nTime
    ELSE c.nTime - c.lastGap - (c.nHeight - 1 - h) * c.spacing
         - (IF h = c.dipAt THEN c.dip ELSE 0)

AncestorBits(c, h, params) ==
    IF h = c.nHeight THEN c.nBits
    ELSE IF h < LwmaHeight /\ h % DifficultyAdjustmentInterval(params, h) = 0
    THEN c.baseBits
    ELSE c.fillBits

\* CBlockIndex::GetAncestor(height)
GetAncestor(c, h, params) ==
    IF h > c.nHeight \/ h < 0 THEN NullIndex
    ELSE IF c.missing[1] <= h /\ h <= c.missing[2] THEN NullIndex
    ELSE [isNull |-> FALSE, nHeight |-> h, nTime |-> AncestorTime(c, h),
          nBits |-> AncestorBits(c, h, params)]

(***************************************************************************)
(* The difficulty engine (pow.cpp).                                        *)
(***************************************************************************)
LwmaN == 240
SolvetimeFactor == 6

\* the loop body with previousTimestamp following every timestamp, also
\* one that is lower than its predecessor's
LwmaStepBackwards(st, blockCurrent, T) ==
    LET thisTimestamp == blockCurrent.nTime
        atLeastOne == IF thisTimestamp - st.previousTimestamp > 1
                      THEN thisTimestamp - st.previousTimestamp ELSE 1
        solvetime == IF SolvetimeFactor * T < atLeastOne
                     THEN SolvetimeFactor * T ELSE atLeastOne
    IN  [previousTimestamp |-> thisTimestamp,
         j |-> st.j + 1,
         t |-> st.t + solvetime * (st.j + 1),
         sumTarget |-> Add256(st.sumTarget, Target(blockCurrent.nBits)),
         failed |-> FALSE]

\* one pass of the loop body of LwmaCalculateNextWorkRequired
LwmaStep(st, blockCurrent, T) ==
    LET thisTimestamp == IF blockCurrent.nTime < st.previousTimestamp
                         THEN st.previousTimestamp ELSE blockCurrent.nTime
        atLeastOne == IF thisTimestamp - st.previousTimestamp > 1
                      THEN thisTimestamp - st.previousTimestamp ELSE 1
        solvetime == IF SolvetimeFactor * T < atLeastOne
                     THEN SolvetimeFactor * T ELSE atLeastOne
    IN  [previousTimestamp |-> thisTimestamp,
         j |-> st.j + 1,
         t |-> st.t + solvetime * (st.j + 1),
         sumTarget |-> Add256(st.sumTarget, Target(blockCurrent.nBits)),
         failed |-> FALSE]

\* the loop with a missing block passed over
RECURSIVE LwmaLoopSkips(_, _, _, _, _, _)
LwmaLoopSkips(pindexLast, params, T, lo, hi, st) ==
    IF lo > hi THEN st
    ELSE IF lo = hi
    THEN With(GetAncestor(pindexLast, lo, params),
              LAMBDA blockCurrent :
                IF blockCurrent.isNull THEN st
                ELSE LwmaStep(st, blockCurrent, T))
    ELSE With(LwmaLoopSkips(pindexLast, params, T, lo, (lo + hi) \div 2, st),
              LAMBDA half :
                LwmaLoopSkips(pindexLast, params, T, (lo + hi) \div 2 + 1, hi,
                              half))

\* the passes of the loop for heights lo..hi, in order, the range split in
\* halves as in the digit loops; a missing block ends the loop
RECURSIVE LwmaLoop(_, _, _, _, _, _)
LwmaLoop(pindexLast, params, T, lo, hi, st) ==
    IF st.failed \/ lo > hi THEN st
    ELSE IF lo = hi
    THEN With(GetAncestor(pindexLast, lo, params),
              LAMBDA blockCurrent :
                IF blockCurrent.isNull THEN [st EXCEPT !.failed = TRUE]
                ELSE LwmaStep(st, blockCurrent, T))
    ELSE With(LwmaLoop(pindexLast, params, T, lo, (lo + hi) \div 2, st),
              LAMBDA half :
                LwmaLoop(pindexLast, params, T, (lo + hi) \div 2 + 1, hi, half))

LwmaCalculateNextWorkRequired(pindexLast, params) ==
    LET T == params.nPowTargetSpacingV2
        N == LwmaN
        k == (N * (N + 1) * T) \div 2
        height == pindexLast.nHeight
        powLimit == params.powLimit
    IN  IF height = 0 THEN GetCompact(powLimit)
        ELSE IF height < N THEN GetCompact(powLimit)
        ELSE
          LET blockStart == GetAncestor(pindexLast, height - N, params)
          IN  IF blockStart.isNull THEN GetCompact(powLimit)
              ELSE
                LET st == LwmaLoop(pindexLast, params, T, height - N + 1, height,
                                   [previousTimestamp |-> blockStart.nTime,
                                    j |-> 0, t |-> 0, sumTarget |-> Zero256,
                                    failed |-> FALSE])
                IN  IF st.failed THEN GetCompact(powLimit)
                    ELSE IF N = 0 \/ T = 0 \/ k = 0 THEN GetCompact(powLimit)
                    ELSE
                      LET avgTarget == Div256(st.sumTarget, N)
                          nextTarget == Div256(Mul256(avgTarget, st.t), k * T)
                      IN  IF Gt256(nextTarget, powLimit)
                          THEN GetCompact(powLimit)
                          ELSE GetCompact(nextTarget)

\* A call of LwmaCalculateNextWorkRequired and what comes of it.  With a
\* null pindexLast the function reads pindexLast->nHeight (line 100) before
\* it tests pindexLast == nullptr (line 104): the read is undefined
\* behaviour, and the call either faults at the read or goes on to the test
\* and returns through it.
Crashed == [crashed |-> TRUE, result |-> 0]
Returned(nBits) == [crashed |-> FALSE, result |-> nBits]

LwmaOutcomes(pindexLast, params) ==
    IF pindexLast = NullIndex
    THEN {Crashed, Returned(GetCompact(params.powLimit))}
    ELSE {Returned(LwmaCalculateNextWorkRequired(pindexLast, params))}

\* RetargetTarget without the lower limit on nActualTimespan
RetargetTargetNoFloor(pindexLast, nFirstBlockTime, params) ==
    LET span == pindexLast.nTime - nFirstBlockTime
        hi == params.nPowTargetTimespan * 4
        nActualTimespan == IF span > hi THEN hi ELSE span
        bnNew == Div256(Mul256(Target(pindexLast.nBits), nActualTimespan),
                        params.nPowTargetTimespan)
    IN  IF Gt256(bnNew, params.powLimit) THEN params.powLimit ELSE bnNew

\* the target CalculateNextWorkRequired computes, before it is encoded
RetargetTarget(pindexLast, nFirstBlockTime, params) ==
    LET span == pindexLast.nTime - nFirstBlockTime
        lo == params.nPowTargetTimespan \div 4
        hi == params.nPowTargetTimespan * 4
        nActualTimespan == IF span < lo THEN lo
                           ELSE IF span > hi THEN hi ELSE span
        bnNew == Div256(Mul256(Target(pindexLast.nBits), nActualTimespan),
                        params.nPowTargetTimespan)
    IN  IF Gt256(bnNew, params.powLimit) THEN params.powLimit ELSE bnNew

\* CalculateNextWorkRequired without the fPowNoRetargeting return
CalculateNextWorkRequiredAlways(pindexLast, nFirstBlockTime, params) ==
    GetCompact(RetargetTarget(pindexLast, nFirstBlockTime, params))

CalculateNextWorkRequired(pindexLast, nFirstBlockTime, params) ==
    IF params.fPowNoRetargeting THEN pindexLast.nBits
    ELSE GetCompact(RetargetTarget(pindexLast, nFirstBlockTime, params))

\* the while loop of the min-difficulty rule moves from a block to its
\* predecessor as long as this holds
WalksBack(pindexLast, h, params, nProofOfWorkLimit) ==
    /\ h > 0
    /\ h % DifficultyAdjustmentInterval(params, h) # 0
    /\ GetAncestor(pindexLast, h, params).nBits = nProofOfWorkLimit

\* the block the loop stops at: the highest one, from pindexLast down, that
\* the loop does not leave (one lies within an adjustment interval)
LastNonMinDifficulty(pindexLast, params, nProofOfWorkLimit) ==
    With({h \in 0..pindexLast.nHeight :
            /\ h >= pindexLast.nHeight
                      - DifficultyAdjustmentInterval(params, pindexLast.nHeight)
            /\ ~WalksBack(pindexLast, h, params, nProofOfWorkLimit)},
         LAMBDA stops :
           GetAncestor(pindexLast, CHOOSE h \in stops : \A k \in stops : k <= h,
                       params))

\* the part of GetNextWorkRequired that runs below the LWMA height
LegacyNextWorkRequired(pindexLast, blockTime, params) ==
    LET nProofOfWorkLimit == GetCompact(params.powLimit)
        nHeight == pindexLast.nHeight + 1
        interval == DifficultyAdjustmentInterval(params, nHeight)
    IN  IF nHeight % interval # 0
        THEN IF params.fPowAllowMinDifficultyBlocks
             THEN IF blockTime > pindexLast.nTime + params.nPowTargetSpacing * 2
                  THEN nProofOfWorkLimit
                  ELSE LastNonMinDifficulty(pindexLast, params,
                                            nProofOfWorkLimit).nBits
             ELSE pindexLast.nBits
        ELSE LET nHeightFirst == pindexLast.nHeight - (interval - 1)
                 pindexFirst == GetAncestor(pindexLast, nHeightFirst, params)
             IN  CalculateNextWorkRequired(pindexLast, pindexFirst.nTime, params)

ResetWindowFirst == 28930
ResetWindowLast == 28999

\* GetNextWorkRequired with the LWMA test ahead of the reset window
GetNextWorkRequiredLwmaFirst(pindexLast, blockTime, params) ==
    IF pindexLast.nHeight + 1 >= LwmaHeight
    THEN LwmaCalculateNextWorkRequired(pindexLast, params)
    ELSE IF pindexLast.nHeight >= ResetWindowFirst
            /\ pindexLast.nHeight <= ResetWindowLast
    THEN GetCompact(params.powLimit)
    ELSE LegacyNextWorkRequired(pindexLast, blockTime, params)

GetNextWorkRequired(pindexLast, blockTime, params) ==
    IF pindexLast.nHeight >= ResetWindowFirst
       /\ pindexLast.nHeight <= ResetWindowLast
    THEN GetCompact(params.powLimit)
    ELSE IF pindexLast.nHeight + 1 >= LwmaHeight
    THEN LwmaCalculateNextWorkRequired(pindexLast, params)
    ELSE LegacyNextWorkRequired(pindexLast, blockTime, params)

\* CheckProofOfWork without the test of fOverflow
CheckProofOfWorkNoOverflow(hash, nBits, params) ==
    With(SetCompact(nBits),
         LAMBDA bnTarget :
           IF \/ bnTarget.fNegative
              \/ bnTarget.value = Zero256
              \/ Gt256(bnTarget.value, params.powLimit)
           THEN FALSE
           ELSE IF Gt256(hash, bnTarget.value)
           THEN FALSE
           ELSE TRUE)

\* CheckProofOfWork with the hash required to exceed the target
CheckProofOfWorkAbove(hash, nBits, params) ==
    With(SetCompact(nBits),
         LAMBDA bnTarget :
           IF \/ bnTarget.fNegative
              \/ bnTarget.value = Zero256
              \/ bnTarget.fOverflow
              \/ Gt256(bnTarget.value, params.powLimit)
           THEN FALSE
           ELSE IF Lt256(hash, bnTarget.value)
           THEN FALSE
           ELSE TRUE)

\* CheckProofOfWork(hash, nBits, params); hash is a 256-bit number
CheckProofOfWork(hash, nBits, params) ==
    With(SetCompact(nBits),
         LAMBDA bnTarget :
           IF \/ bnTarget.fNegative
              \/ bnTarget.value = Zero256
              \/ bnTarget.fOverflow
              \/ Gt256(bnTarget.value, params.powLimit)
           THEN FALSE
           ELSE IF Gt256(hash, bnTarget.value)
           THEN FALSE
           ELSE TRUE)


(***************************************************************************)
(* Block/header model (primitives/block.h). A header is held by the       *)
(* fields the RPCs read: nVersion, hashPrevBlock, and hashMerkleRoot,      *)
(* which stands for the rest of the 80 serialized bytes (it commits to the *)
(* transactions).  A decoded block adds the AuxPoW slot and vtx.           *)
(***************************************************************************)
BASE_VERSION == 7
AUXPOW_VERSION_BIT == 256

\* CBlockHeader::IsAuxpow
IsAuxpow(header) == (header.nVersion \div AUXPOW_VERSION_BIT) % 2 = 1

\* the merkle roots miners put in headers; the one above them is only ever
\* in headers that were never submitted
MaxRoot == 2
Roots == 0..MaxRoot
AbsentRoot == MaxRoot + 1

NullHash == 0

\* CBlockHeader::GetHash: the hash of the serialized header fields, the
\* AuxPoW slot and the transactions not among them; distinct headers have
\* distinct hashes and none hashes to null
GetHash(header) ==
    ((header.hashPrevBlock * (AbsentRoot + 1) + header.hashMerkleRoot) * 16
        + (header.nVersion % 8) + (IF IsAuxpow(header) THEN 8 ELSE 0)) + 1

Header(nVersion, hashPrevBlock, hashMerkleRoot) ==
    [nVersion |-> nVersion, hashPrevBlock |-> hashPrevBlock,
     hashMerkleRoot |-> hashMerkleRoot]

\* CreateGenesisBlock: version 1, no predecessor
GenesisHeader == Header(1, NullHash, 0)
hashGenesisBlock == GetHash(GenesisHeader)

\* the header part of a decoded block
HeaderOf(block) ==
    Header(block.nVersion, block.hashPrevBlock, block.hashMerkleRoot)

(***************************************************************************)
(* Merkle trees (primitives/block.cpp).  Transaction and node hashes are   *)
(* numbers from 1 up.                                                      *)
(***************************************************************************)
\* Hash(a, b): the hash of a || b; distinct pairs have distinct hashes, and a
\* node's hash is above both hashes under it
Hash(a, b) == ((a + b) * (a + b + 1)) \div 2 + b

\* ComputeMerkleRootFromBranch with the two halves of every pair exchanged
RECURSIVE ComputeMerkleRootFromBranchSwapped(_, _, _)
ComputeMerkleRootFromBranchSwapped(hash, vMerkleBranch, nIndex) ==
    IF vMerkleBranch = << >> THEN hash
    ELSE ComputeMerkleRootFromBranchSwapped(
             IF nIndex % 2 = 1 THEN Hash(hash, Head(vMerkleBranch))
             ELSE Hash(Head(vMerkleBranch), hash),
             Tail(vMerkleBranch), nIndex \div 2)

\* ComputeMerkleRootFromBranch: one pass of the loop for the first entry of
\* the branch, then the rest; nIndex & 1 is nIndex % 2, nIndex >>= 1 halves
RECURSIVE ComputeMerkleRootFromBranch(_, _, _)
ComputeMerkleRootFromBranch(hash, vMerkleBranch, nIndex) ==
    IF vMerkleBranch = << >> THEN hash
    ELSE ComputeMerkleRootFromBranch(
             IF nIndex % 2 = 1 THEN Hash(Head(vMerkleBranch), hash)
             ELSE Hash(hash, Head(vMerkleBranch)),
             Tail(vMerkleBranch), nIndex \div 2)

\* the Bitcoin pairing rule: the level above a level of a tree, the last
\* node paired with itself when the level has an odd number of nodes
MerkleLevelUp(level) ==
    [i \in 1..((Len(level) + 1) \div 2) |->
       Hash(level[2 * i - 1],
            IF 2 * i <= Len(level) THEN level[2 * i] ELSE level[2 * i - 1])]

\* ComputeMerkleRoot of a non-empty list of leaves
RECURSIVE ComputeMerkleRoot(_)
ComputeMerkleRoot(leaves) ==
    IF Len(leaves) = 1 THEN leaves[1]
    ELSE ComputeMerkleRoot(MerkleLevelUp(leaves))

\* the branch of the leaf at position (from 0): its sibling at every level
\* below the root, the node itself where it is the last of an odd level
RECURSIVE MerkleBranch(_, _)
MerkleBranch(leaves, position) ==
    IF Len(leaves) = 1 THEN << >>
    ELSE LET sibling == IF position % 2 = 1 THEN position - 1 ELSE position + 1
             held == IF sibling < Len(leaves) THEN sibling ELSE position
         IN  << leaves[held + 1] >>
             \o MerkleBranch(MerkleLevelUp(leaves), position \div 2)

(***************************************************************************)
(* AuxPoW verification (pow.cpp).  A block under verification is held by   *)
(* its header fields, nBits and m_auxpow, the CAuxPow it carries or        *)
(* NoAuxPow; a CAuxPow by parentBlock, coinbaseTx (its hash and the        *)
(* scriptSig of its first input, a sequence of bytes), vMerkleBranch and   *)
(* nIndex.  vChainMerkleBranch is not read by the verification.            *)
(***************************************************************************)
NoAuxPow == [isNull |-> TRUE]

pchAuxPowHeader == <<112, 108, 109, 1>>

\* UintToArith256: the number a hash is compared as
UintToArith256(hash) == FromInt(hash)

\* the 32 bytes of a uint256, begin() to end(): lowest byte first
Uint256Bytes(hash) ==
    With(FromInt(hash),
         LAMBDA d : [i \in 1..32 |-> d[2 * i - 1] + 16 * d[2 * i]])

\* std::reverse
Reverse(bytes) == [i \in 1..Len(bytes) |-> bytes[Len(bytes) + 1 - i]]

\* std::search: where the first occurrence of needle starts (from 1), or
\* Len(haystack) + 1, the end, if there is none
Search(haystack, needle) ==
    With({i \in 1..(Len(haystack) - Len(needle) + 1) :
            SubSeq(haystack, i, i + Len(needle) - 1) = needle},
         LAMBDA found :
           IF found = {} THEN Len(haystack) + 1
           ELSE CHOOSE i \in found : \A k \in found : i <= k)

\* CAuxPow::GetParentBlockHash
GetParentBlockHash(auxpow) == GetHash(auxpow.parentBlock)

\* CBlock::GetPoWHash
GetPoWHash(block) ==
    IF IsAuxpow(block) /\ ~block.m_auxpow.isNull
    THEN GetParentBlockHash(block.m_auxpow)
    ELSE GetHash(HeaderOf(block))

\* the proof-of-work step taken on the hash of the block itself
OwnPowOk(block, params) ==
    CheckProofOfWork(UintToArith256(GetHash(HeaderOf(block))), block.nBits,
                     params)

\* the proof-of-work step of CheckAuxPowProofOfWork
ParentPowOk(block, params) ==
    CheckProofOfWork(UintToArith256(GetParentBlockHash(block.m_auxpow)),
                     block.nBits, params)

\* the merkle step: the branch of the parent coinbase leads to the parent's
\* merkle root
MerkleOk(block) ==
    block.m_auxpow.parentBlock.hashMerkleRoot
      = ComputeMerkleRootFromBranch(block.m_auxpow.coinbaseTx.hash,
                                    block.m_auxpow.vMerkleBranch,
                                    block.m_auxpow.nIndex)

\* the hash the commitment must give: that of the header without the flag
hashAuxBlockExpected(block) ==
    GetHash(Header(IF IsAuxpow(block)
                   THEN block.nVersion - AUXPOW_VERSION_BIT
                   ELSE block.nVersion,
                   block.hashPrevBlock, block.hashMerkleRoot))

\* the commitment steps with the 32 bytes taken as they stand
CommitmentErrorNoReverse(block) ==
    LET scriptSig == block.m_auxpow.coinbaseTx.scriptSig
        pc == Search(scriptSig, pchAuxPowHeader)
        vchCommitment == SubSeq(scriptSig, pc + Len(pchAuxPowHeader),
                                Len(scriptSig))
    IN  IF pc = Len(scriptSig) + 1
        THEN "AuxPoW magic bytes not found in Coinbase scriptSig"
        ELSE IF Len(vchCommitment) < 32
        THEN "Commitment data too short in Coinbase scriptSig"
        ELSE IF SubSeq(vchCommitment, 1, 32)
                  # Uint256Bytes(hashAuxBlockExpected(block))
        THEN "AuxPoW commitment mismatch"
        ELSE ""

\* the commitment steps of CheckAuxPowProofOfWork: the error they end
\* with, or "" when they pass
CommitmentError(block) ==
    LET scriptSig == block.m_auxpow.coinbaseTx.scriptSig
        pc == Search(scriptSig, pchAuxPowHeader)
        vchCommitment == SubSeq(scriptSig, pc + Len(pchAuxPowHeader),
                                Len(scriptSig))
    IN  IF pc = Len(scriptSig) + 1
        THEN "AuxPoW magic bytes not found in Coinbase scriptSig"
        ELSE IF Len(vchCommitment) < 32
        THEN "Commitment data too short in Coinbase scriptSig"
        ELSE IF Reverse(SubSeq(vchCommitment, 1, 32))
                  # Uint256Bytes(hashAuxBlockExpected(block))
        THEN "AuxPoW commitment mismatch"
        ELSE ""

\* the duplicate step with the set never consulted
IsDuplicateParentNever(block, scanned) == FALSE

\* the duplicate step: the parent's hash is in the set
IsDuplicateParent(block, scanned) ==
    GetParentBlockHash(block.m_auxpow) \in scanned

AuxPowResult(ok, error) == [ok |-> ok, error |-> error]

\* CheckAuxPowProofOfWork(block, params), scanned being
\* setAuxPowScannedParentHashes: true, or false and the error logged
CheckAuxPowProofOfWork(block, params, scanned) ==
    IF ~IsAuxpow(block)
    THEN AuxPowResult(FALSE, "Block does not have AuxPoW version bit set")
    ELSE IF block.m_auxpow.isNull
    THEN AuxPowResult(FALSE, "No AuxPoW data present in AuxPoW block")
    ELSE IF ~ParentPowOk(block, params)
    THEN AuxPowResult(FALSE, "Bitcoin parent block PoW does not meet target")
    ELSE IF ~MerkleOk(block)
    THEN AuxPowResult(FALSE, "Merkle branch for Coinbase Tx verification failed")
    ELSE IF CommitmentError(block) # ""
    THEN AuxPowResult(FALSE, CommitmentError(block))
    ELSE IF IsDuplicateParent(block, scanned)
    THEN AuxPowResult(FALSE, "duplicate proof-of-work parent block hash")
    ELSE AuxPowResult(TRUE, "")

(***************************************************************************)
(* mapBlockIndex: block hash -> CBlockIndex.  An entry keeps nHeight, the  *)
(* header fields, and nStatus as one of                                    *)
(*   "header"  header accepted, no block data,                             *)
(*   "stored"  block data stored, not connected (below BLOCK_VALID_SCRIPTS)*)
(*   "valid"   connected once: BLOCK_VALID_SCRIPTS,                        *)
(*   "failed"  BLOCK_FAILED_MASK.                                          *)
(***************************************************************************)
NullBlockIndex == [isNull |-> TRUE]

\* LookupBlockIndex
LookupBlockIndex(index, hash) ==
    IF hash \in DOMAIN index THEN index[hash] ELSE NullBlockIndex

IndexEntry(header, nHeight, status) ==
    [isNull |-> FALSE, nHeight |-> nHeight, status |-> status,
     nVersion |-> header.nVersion,
     hashPrevBlock |-> header.hashPrevBlock,
     hashMerkleRoot |-> header.hashMerkleRoot]

\* CBlockIndex::IsValid(BLOCK_VALID_SCRIPTS)
IsValidScripts(pindex) == pindex.status = "valid"
\* nStatus & BLOCK_FAILED_MASK
IsFailed(pindex) == pindex.status = "failed"

(***************************************************************************)
(* RPC replies and BlockValidationState.                                   *)
(***************************************************************************)
NullUniValue == [kind |-> "null", code |-> "", text |-> ""]
StringReply(text) == [kind |-> "string", code |-> "", text |-> text]
JSONRPCError(code, message) == [kind |-> "error", code |-> code, text |-> message]

ValidationState(mode, result, reason) ==
    [mode |-> mode, result |-> result, reason |-> reason]
ValidState == ValidationState("valid", "BLOCK_RESULT_UNSET", "")

\* the validation states TestBlockValidity can leave
ValidationModes == {"valid", "invalid", "error"}
ValidationResults ==
    {"BLOCK_CONSENSUS", "BLOCK_INVALID_HEADER", "BLOCK_INVALID_PREV"}
RejectReasons == {"", "duplicate-invalid", "bad-prevblk"}
ValidationStates ==
    {ValidState, ValidationState("error", "BLOCK_RESULT_UNSET", "System error")}
    \cup {ValidationState("invalid", r, t) :
            r \in ValidationResults, t \in RejectReasons}

\* BIP22ValidationResult
BIP22ValidationResult(state) ==
    IF state.mode = "valid" THEN NullUniValue
    ELSE IF state.mode = "error"
    THEN JSONRPCError("RPC_VERIFY_ERROR", state.reason)
    ELSE IF state.mode = "invalid"
    THEN IF state.reason = "" THEN StringReply("rejected")
         ELSE IF /\ state.result \in {"BLOCK_HEADER_DUPLICATE", "BLOCK_INVALID_HEADER"}
                 /\ state.reason \in {"duplicate", "duplicate-invalid"}
         THEN StringReply(state.reason)
         ELSE IF state.result = "BLOCK_INVALID_PREV"
         THEN StringReply("inconclusive-not-best-prevblk")
         ELSE StringReply(state.reason)
    ELSE StringReply("valid?")

(***************************************************************************)
(* Validation (validation.cpp), as far as the RPCs observe it.  What the   *)
(* transactions of a block are worth is fixed by its merkle root:          *)
(*   root 1  the block fails when it is connected (marked failed),         *)
(*   root 2  the block fails CheckBlock (never indexed),                   *)
(*   other   the block is valid.                                           *)
(***************************************************************************)
FailsConnect(hashMerkleRoot) == hashMerkleRoot = 1
FailsCheck(hashMerkleRoot) == hashMerkleRoot = 2

\* the not yet connected blocks from `hash` down to its connected ancestor,
\* lowest first
RECURSIVE Branch(_, _)
Branch(index, hash) ==
    IF hash \notin DOMAIN index \/ index[hash].status # "stored" THEN << >>
    ELSE Branch(index, index[hash].hashPrevBlock) \o << hash >>

\* ActivateBestChain towards `hash`: connect its branch from the bottom; the
\* first block that fails and all above it are marked failed
ConnectedIndex(index, path) ==
    LET bad == {i \in 1..Len(path) : FailsConnect(index[path[i]].hashMerkleRoot)}
    IN  [h \in DOMAIN index |->
           IF \E i \in 1..Len(path) : path[i] = h
           THEN [index[h] EXCEPT !.status =
                   IF \E i \in bad : \E k \in i..Len(path) : path[k] = h
                   THEN "failed" ELSE "valid"]
           ELSE index[h]]

\* the best connected block: the new one if it got connected, else the
\* highest connected block of its branch above the old tip, else the old tip
BestTip(index, tip, path) ==
    LET up == {i \in 1..Len(path) :
                 /\ index[path[i]].status = "valid"
                 /\ index[path[i]].nHeight > index[tip].nHeight}
    IN  IF up = {} THEN tip
        ELSE path[CHOOSE i \in up : \A k \in up : k <= i]

\* what a call leaves behind: the index, the tip, whether BlockChecked fired
\* for the block (found, state), and the return value and fNewBlock
Processed(index, tip, found, state, accepted, new_block) ==
    [index |-> index, tip |-> tip, found |-> found, state |-> state,
     accepted |-> accepted, new_block |-> new_block]

\* ProcessNewBlock(chainparams, pblock, fForceProcessing = true, &fNewBlock);
\* fault: a system error (disk) strikes the call
ProcessNewBlock(index, tip, block, fault) ==
    LET hash == GetHash(HeaderOf(block))
        pindexPrev == LookupBlockIndex(index, block.hashPrevBlock)
        pindex == LookupBlockIndex(index, hash)
    IN  IF fault
        THEN Processed(index, tip, TRUE,
                       ValidationState("error", "BLOCK_RESULT_UNSET", "System error"),
                       FALSE, FALSE)
        ELSE IF FailsCheck(block.hashMerkleRoot)
        THEN Processed(index, tip, TRUE,
                       ValidationState("invalid", "BLOCK_MUTATED", "bad-txnmrklroot"),
                       FALSE, FALSE)
        ELSE IF ~pindex.isNull /\ IsFailed(pindex)
        THEN Processed(index, tip, TRUE,
                       ValidationState("invalid", "BLOCK_CACHED_INVALID", "duplicate"),
                       FALSE, FALSE)
        ELSE IF ~pindex.isNull /\ pindex.status \in {"stored", "valid"}
        THEN Processed(index, tip, FALSE, ValidState, TRUE, FALSE)
        ELSE IF pindexPrev.isNull
        THEN Processed(index, tip, TRUE,
                       ValidationState("invalid", "BLOCK_MISSING_PREV", "prev-blk-not-found"),
                       FALSE, FALSE)
        ELSE IF IsFailed(pindexPrev)
        THEN Processed(index, tip, TRUE,
                       ValidationState("invalid", "BLOCK_INVALID_PREV", "bad-prevblk"),
                       FALSE, FALSE)
        ELSE
          LET stored == [h \in DOMAIN index \cup {hash} |->
                           IF h = hash
                           THEN IndexEntry(HeaderOf(block), pindexPrev.nHeight + 1, "stored")
                           ELSE index[h]]
              path == Branch(stored, hash)
              connected == ConnectedIndex(stored, path)
          IN  IF stored[hash].nHeight <= index[tip].nHeight
                 \/ (path # << >> /\ stored[path[1]].hashPrevBlock \notin DOMAIN stored)
                 \/ (path # << >> /\ stored[stored[path[1]].hashPrevBlock].status # "valid")
              THEN Processed(stored, tip, FALSE, ValidState, TRUE, TRUE)
              ELSE Processed(connected, BestTip(connected, tip, path),
                             \/ connected[hash].status = "valid"
                             \/ /\ FailsConnect(block.hashMerkleRoot)
                                /\ \A i \in 1..(Len(path) - 1) :
                                      connected[path[i]].status = "valid",
                             IF connected[hash].status = "valid" THEN ValidState
                             ELSE ValidationState("invalid", "BLOCK_CONSENSUS",
                                                  "bad-txns-inputs-missingorspent"),
                             TRUE, TRUE)

\* ProcessNewBlockHeaders({h}, state, chainparams)
ProcessNewBlockHeaders(index, tip, h) ==
    LET hash == GetHash(h)
        pindexPrev == LookupBlockIndex(index, h.hashPrevBlock)
        pindex == LookupBlockIndex(index, hash)
    IN  IF ~pindex.isNull
        THEN IF IsFailed(pindex)
             THEN Processed(index, tip, FALSE,
                            ValidationState("invalid", "BLOCK_CACHED_INVALID", "duplicate"),
                            FALSE, FALSE)
             ELSE Processed(index, tip, FALSE, ValidState, TRUE, FALSE)
        ELSE IF pindexPrev.isNull
        THEN Processed(index, tip, FALSE,
                       ValidationState("invalid", "BLOCK_MISSING_PREV", "prev-blk-not-found"),
                       FALSE, FALSE)
        ELSE IF IsFailed(pindexPrev)
        THEN Processed(index, tip, FALSE,
                       ValidationState("invalid", "BLOCK_INVALID_PREV", "bad-prevblk"),
                       FALSE, FALSE)
        ELSE Processed([x \in DOMAIN index \cup {hash} |->
                          IF x = hash
                          THEN IndexEntry(h, pindexPrev.nHeight + 1, "header")
                          ELSE index[x]],
                       tip, FALSE, ValidState, TRUE, TRUE)

\* BlockAssembler::CreateNewBlock: the template on top of the tip; its
\* version carries the AuxPoW flag from nAuxpowStartHeight on
CreateNewBlock(index, tip, consensusParams) ==
    [nVersion |-> IF index[tip].nHeight + 1 >= consensusParams.nAuxpowStartHeight
                  THEN BASE_VERSION + AUXPOW_VERSION_BIT ELSE BASE_VERSION,
     hashPrevBlock |-> tip,
     hashMerkleRoot |-> 0]

(***************************************************************************)
(* The mining RPCs (rpc/mining.cpp).  Each handler is an operator from the *)
(* request and the node's state to the reply and the state it leaves.      *)
(***************************************************************************)

\* DecodeHexBlk: the block a request decodes to.  On the wire the AuxPoW
\* slot follows the header exactly when the version flag is set; a slot
\* read with a null parent hash is dropped (CBlock::SerializationOp).
DecodeHexBlk(wire) ==
    [nVersion |-> wire.nVersion,
     hashPrevBlock |-> wire.hashPrevBlock,
     hashMerkleRoot |-> wire.hashMerkleRoot,
     m_auxpow |-> IsAuxpow(wire) /\ wire.auxpow = "proof",
     vtx |-> wire.vtx]

\* what a submission leaves: the reply, whether block (or header) processing
\* was invoked, and the block index and tip afterwards
Outcome(reply, processed, index, tip) ==
    [reply |-> reply, processed |-> processed, index |-> index, tip |-> tip]

\* the reply submitblock derives from ProcessNewBlock's result
SubmitBlockResult(done) ==
    IF done.found THEN BIP22ValidationResult(done.state)
    ELSE IF ~done.accepted THEN StringReply("rejected")
    ELSE IF ~done.new_block THEN StringReply("duplicate")
    ELSE NullUniValue

\* AuxPowVerdict without the check for the AuxPoW data
AuxPowVerdictNoData(fShouldHaveAuxPow, fBlockHasAuxPow, m_auxpow) ==
    IF fShouldHaveAuxPow /\ ~fBlockHasAuxPow
    THEN "rejected: bad-auxpow-version-missing"
    ELSE IF ~fShouldHaveAuxPow /\ fBlockHasAuxPow
    THEN "rejected: bad-auxpow-unexpected"
    ELSE ""

\* the AuxPoW consistency checks of submitblock: the reply that ends the
\* call, or "" when the block passes
AuxPowVerdict(fShouldHaveAuxPow, fBlockHasAuxPow, m_auxpow) ==
    IF fShouldHaveAuxPow /\ ~fBlockHasAuxPow
    THEN "rejected: bad-auxpow-version-missing"
    ELSE IF ~fShouldHaveAuxPow /\ fBlockHasAuxPow
    THEN "rejected: bad-auxpow-unexpected"
    ELSE IF fShouldHaveAuxPow /\ ~m_auxpow
    THEN "rejected: bad-auxpow-data-missing"
    ELSE ""

\* DuplicateVerdict without the BLOCK_FAILED_MASK test
DuplicateVerdictNoFailed(pindex) ==
    IF pindex.isNull THEN ""
    ELSE IF IsValidScripts(pindex) THEN "duplicate"
    ELSE ""

\* the check whether the block already exists: the reply that ends the
\* call, or "" when the block goes on to ProcessNewBlock
DuplicateVerdict(pindex) ==
    IF pindex.isNull THEN ""
    ELSE IF IsValidScripts(pindex) THEN "duplicate"
    ELSE IF IsFailed(pindex) THEN "duplicate-invalid"
    ELSE ""

\* submitblock, from the AuxPoW consistency checks on; nHeight is the height
\* found for the block
SubmitBlockChecks(index, tip, block, nHeight, consensusParams, fault) ==
    LET gate == AuxPowVerdict(nHeight >= consensusParams.nAuxpowStartHeight,
                              IsAuxpow(block), block.m_auxpow)
        known == DuplicateVerdict(
                   LookupBlockIndex(index, GetHash(HeaderOf(block))))
    IN  IF gate # "" THEN Outcome(StringReply(gate), FALSE, index, tip)
        ELSE IF block.vtx # "coinbase-first"
        THEN Outcome(StringReply("rejected: bad-cb-missing"), FALSE, index, tip)
        ELSE IF known # "" THEN Outcome(StringReply(known), FALSE, index, tip)
        ELSE IF LookupBlockIndex(index, block.hashPrevBlock).isNull
        THEN Outcome(StringReply("inconclusive - not-best-prevblk"),
                     FALSE, index, tip)
        ELSE LET done == ProcessNewBlock(index, tip, block, fault)
             IN  Outcome(SubmitBlockResult(done), TRUE, done.index, done.tip)

\* submitblock
submitblock(index, tip, wire, consensusParams, fault) ==
    IF ~wire.decodes
    THEN Outcome(JSONRPCError("RPC_DESERIALIZATION_ERROR", "Block decode failed"),
                 FALSE, index, tip)
    ELSE
      LET block == DecodeHexBlk(wire)
          pindexPrev == LookupBlockIndex(index, block.hashPrevBlock)
      IN  IF ~pindexPrev.isNull
          THEN SubmitBlockChecks(index, tip, block, pindexPrev.nHeight + 1,
                                 consensusParams, fault)
          ELSE IF GetHash(HeaderOf(block)) = hashGenesisBlock
          THEN SubmitBlockChecks(index, tip, block, 0, consensusParams, fault)
          ELSE Outcome(JSONRPCError("RPC_VERIFY_ERROR",
                                    "Block rejected: previous block not known"),
                       FALSE, index, tip)

\* SubmitHeaderChecks with the AuxPoW check one block late
SubmitHeaderChecksLate(index, tip, h, nHeight, consensusParams) ==
    IF nHeight > consensusParams.nAuxpowStartHeight
    THEN Outcome(JSONRPCError("RPC_INVALID_REQUEST",
                              "Submitheader is incompatible with active AuxPoW"),
                 FALSE, index, tip)
    ELSE LET done == ProcessNewBlockHeaders(index, tip, h)
         IN  IF ~done.accepted /\ done.state.mode = "invalid"
             THEN Outcome(JSONRPCError("RPC_VERIFY_ERROR", done.state.reason),
                          TRUE, done.index, done.tip)
             ELSE Outcome(NullUniValue, TRUE, done.index, done.tip)

\* submitheader, from the AuxPoW check on
SubmitHeaderChecks(index, tip, h, nHeight, consensusParams) ==
    IF nHeight >= consensusParams.nAuxpowStartHeight
    THEN Outcome(JSONRPCError("RPC_INVALID_REQUEST",
                              "Submitheader is incompatible with active AuxPoW"),
                 FALSE, index, tip)
    ELSE LET done == ProcessNewBlockHeaders(index, tip, h)
         IN  IF ~done.accepted /\ done.state.mode = "invalid"
             THEN Outcome(JSONRPCError("RPC_VERIFY_ERROR", done.state.reason),
                          TRUE, done.index, done.tip)
             ELSE Outcome(NullUniValue, TRUE, done.index, done.tip)

\* submitheader
submitheader(index, tip, wire, consensusParams) ==
    IF ~wire.decodes
    THEN Outcome(JSONRPCError("RPC_DESERIALIZATION_ERROR",
                              "Block header decode failed"),
                 FALSE, index, tip)
    ELSE
      LET h == HeaderOf(wire)
          pindexPrev == LookupBlockIndex(index, h.hashPrevBlock)
      IN  IF ~pindexPrev.isNull
          THEN SubmitHeaderChecks(index, tip, h, pindexPrev.nHeight + 1,
                                  consensusParams)
          ELSE IF GetHash(h) = hashGenesisBlock
          THEN SubmitHeaderChecks(index, tip, h, 0, consensusParams)
          ELSE Outcome(JSONRPCError("RPC_VERIFY_ERROR",
                                    "Submitheader rejected: previous block not known"),
                       FALSE, index, tip)

\* the statics of getblocktemplate: pindexPrev (a block hash, null before
\* the first template), pblocktemplate and nTransactionsUpdatedLast
NoTemplate == [isNull |-> TRUE]
EmptyCache ==
    [pindexPrev |-> NullHash, pblocktemplate |-> NoTemplate,
     nTransactionsUpdatedLast |-> 0]

TemplateOutcome(reply, cache) == [reply |-> reply, cache |-> cache]

\* TemplateReply with fAuxPowActive one block late
TemplateReplyLate(index, cache, consensusParams) ==
    LET pblock == cache.pblocktemplate
        nHeight == index[cache.pindexPrev].nHeight + 1
        fAuxPowActive == nHeight > consensusParams.nAuxpowStartHeight
    IN  [kind |-> "object", code |-> "", text |-> "",
         previousblockhash |-> pblock.hashPrevBlock,
         longpollid |-> <<cache.pindexPrev, cache.nTransactionsUpdatedLast>>,
         height |-> nHeight,
         aux |-> fAuxPowActive,
         submitold |-> IF fAuxPowActive THEN "false" ELSE "absent",
         version |-> pblock.nVersion]

\* the reply object of getblocktemplate, by the fields the miners' side of
\* the AuxPoW switch reads
TemplateReply(index, cache, consensusParams) ==
    LET pblock == cache.pblocktemplate
        nHeight == index[cache.pindexPrev].nHeight + 1
        fAuxPowActive == nHeight >= consensusParams.nAuxpowStartHeight
    IN  [kind |-> "object", code |-> "", text |-> "",
         previousblockhash |-> pblock.hashPrevBlock,
         longpollid |-> <<cache.pindexPrev, cache.nTransactionsUpdatedLast>>,
         height |-> nHeight,
         aux |-> fAuxPowActive,
         submitold |-> IF fAuxPowActive THEN "false" ELSE "absent",
         version |-> pblock.nVersion]

\* getblocktemplate in template mode, for a request without longpollid.
\* p2p: the state of the P2P layer; stale: GetTime() - nStart > 5;
\* fault: CreateNewBlock throws
GetTemplate(index, tip, cache, nTransactionsUpdated, consensusParams, request, p2p, stale, fault) ==
    IF p2p = "disabled"
    THEN TemplateOutcome(JSONRPCError("RPC_CLIENT_P2P_DISABLED",
           "Error: Peer-to-peer functionality missing or disabled"), cache)
    ELSE IF p2p = "no-peers"
    THEN TemplateOutcome(JSONRPCError("RPC_CLIENT_NOT_CONNECTED",
           "Palladium is not connected!"), cache)
    ELSE IF p2p = "initial-download"
    THEN TemplateOutcome(JSONRPCError("RPC_CLIENT_IN_INITIAL_DOWNLOAD",
           "Palladium is downloading blocks..."), cache)
    ELSE IF ~request.segwit
    THEN TemplateOutcome(JSONRPCError("RPC_INVALID_PARAMETER",
           "getblocktemplate must be called with the \"segwit\" rule set."), cache)
    ELSE IF cache.pindexPrev # tip
            \/ (nTransactionsUpdated # cache.nTransactionsUpdatedLast /\ stale)
    THEN IF fault
         THEN TemplateOutcome(JSONRPCError("RPC_INTERNAL_ERROR",
                "Block template creation failed"),
                [cache EXCEPT !.pindexPrev = NullHash,
                              !.nTransactionsUpdatedLast = nTransactionsUpdated])
         ELSE LET fresh == [pindexPrev |-> tip,
                            pblocktemplate |->
                               CreateNewBlock(index, tip, consensusParams),
                            nTransactionsUpdatedLast |-> nTransactionsUpdated]
              IN  TemplateOutcome(TemplateReply(index, fresh, consensusParams), fresh)
    ELSE TemplateOutcome(TemplateReply(index, cache, consensusParams), cache)

\* the state CheckBlockTemplateProposal leaves for a decoded proposal;
\* validity: the state TestBlockValidity leaves when it is reached
CheckBlockTemplateProposal(index, data, validity) ==
    LET pindex == LookupBlockIndex(index, GetHash(HeaderOf(DecodeHexBlk(data))))
    IN  IF ~pindex.isNull /\ IsValidScripts(pindex)
        THEN ValidationState("invalid", "BLOCK_HEADER_DUPLICATE", "duplicate")
        ELSE IF ~pindex.isNull /\ IsFailed(pindex)
        THEN ValidationState("invalid", "BLOCK_HEADER_DUPLICATE", "duplicate-invalid")
        ELSE validity

\* getblocktemplate: proposal mode, then template mode
getblocktemplate(index, tip, cache, nTransactionsUpdated, consensusParams, request, p2p, stale, fault) ==
    IF request.mode = "proposal"
    THEN IF ~request.data.decodes
         THEN TemplateOutcome(JSONRPCError("RPC_DESERIALIZATION_ERROR",
                                           "Block decode failed"), cache)
         ELSE TemplateOutcome(
                BIP22ValidationResult(
                  CheckBlockTemplateProposal(index, request.data, request.validity)),
                cache)
    ELSE IF request.mode # "template"
    THEN TemplateOutcome(JSONRPCError("RPC_INVALID_PARAMETER", "Invalid mode"), cache)
    ELSE GetTemplate(index, tip, cache, nTransactionsUpdated, consensusParams,
                     request, p2p, stale, fault)

(***************************************************************************)
(* The long poll of getblocktemplate (rpc/mining.cpp).  A string is a      *)
(* sequence of characters; a longpollid is a string (isStr, str) or a      *)
(* value of another JSON type.                                             *)
(***************************************************************************)
HexDigits ==
    <<"0", "1", "2", "3", "4", "5", "6", "7", "8", "9", "a", "b", "c", "d",
      "e", "f">>
UpperHexDigits == <<"A", "B", "C", "D", "E", "F">>

\* HexDigit: the value of a character, -1 if it is no hexadecimal digit
HexValue(c) ==
    IF \E d \in 0..15 : HexDigits[d + 1] = c
    THEN CHOOSE d \in 0..15 : HexDigits[d + 1] = c
    ELSE IF \E d \in 10..15 : UpperHexDigits[d - 9] = c
    THEN CHOOSE d \in 10..15 : UpperHexDigits[d - 9] = c
    ELSE -1

IsHex(str) == Len(str) > 0 /\ \A i \in 1..Len(str) : HexValue(str[i]) >= 0

IsDecimalDigit(c) == HexValue(c) >= 0 /\ HexValue(c) <= 9 /\ c = HexDigits[HexValue(c) + 1]

\* uint256::GetHex: 64 characters, the highest digit first
GetHex(hash) ==
    With(FromInt(hash), LAMBDA d : [i \in 1..WIDTH |-> HexDigits[d[WIDTH + 1 - i] + 1]])

\* uint256S of 64 hexadecimal characters: the number, lowest digit first
Uint256S(str) == [i \in 1..WIDTH |-> HexValue(str[WIDTH + 1 - i])]

\* std::to_string of an unsigned number
RECURSIVE to_string(_)
to_string(n) ==
    IF n < 10 THEN <<HexDigits[n + 1]>>
    ELSE to_string(n \div 10) \o <<HexDigits[(n % 10) + 1]>>

\* the value of a run of decimal digits
RECURSIVE DecimalValue(_)
DecimalValue(digits) ==
    IF digits = << >> THEN 0
    ELSE DecimalValue(SubSeq(digits, 1, Len(digits) - 1)) * 10
         + HexValue(digits[Len(digits)])

\* std::stoul on a string without '-': blanks skipped, a '+' skipped, then
\* the longest run of decimal digits; what follows the run is ignored, and
\* an empty run throws
Stoul(str) ==
    LET blanks == {i \in 0..Len(str) : \A k \in 1..i : str[k] = " "}
        start == (CHOOSE i \in blanks : \A k \in blanks : k <= i) + 1
        first == IF start <= Len(str) /\ str[start] = "+" THEN start + 1
                 ELSE start
        runs == {i \in (first - 1)..Len(str) :
                   \A k \in first..i : IsDecimalDigit(str[k])}
        last == CHOOSE i \in runs : \A k \in runs : k <= i
    IN  IF last < first THEN [throws |-> TRUE, value |-> 0]
        ELSE [throws |-> FALSE, value |-> DecimalValue(SubSeq(str, first, last))]

\* ParseHashV(v, strName) of a string: the error it throws, or ""
ParseHashVError(strHex, strName) ==
    IF Len(strHex) # 64 THEN strName \o " must be of length 64"
    ELSE IF ~IsHex(strHex) THEN strName \o " must be hexadecimal string"
    ELSE ""

Parsed(reply, hashWatchedChain, nTransactionsUpdatedLastLP) ==
    [reply |-> reply, hashWatchedChain |-> hashWatchedChain,
     nTransactionsUpdatedLastLP |-> nTransactionsUpdatedLastLP]

\* the reading of lpval: the error thrown, or no reply yet and the hash and
\* the counter the wait watches
ReadLongPollId(lpval, tip, nTransactionsUpdatedLast) ==
    IF lpval.isStr
    THEN LET lpstr == lpval.str
         IN  IF Len(lpstr) # 64 + Len(to_string(nTransactionsUpdatedLast))
             THEN Parsed(JSONRPCError("RPC_INVALID_PARAMETER",
                                      "Invalid longpollid format"),
                         Zero256, 0)
             ELSE IF ParseHashVError(SubSeq(lpstr, 1, 64), "longpollid") # ""
             THEN Parsed(JSONRPCError("RPC_INVALID_PARAMETER",
                           ParseHashVError(SubSeq(lpstr, 1, 64), "longpollid")),
                         Zero256, 0)
             ELSE IF Stoul(SubSeq(lpstr, 65, Len(lpstr))).throws
             THEN Parsed(JSONRPCError("RPC_INVALID_PARAMETER",
                           "Invalid longpollid format (transaction count)"),
                         Zero256, 0)
             ELSE Parsed(NullUniValue, Uint256S(SubSeq(lpstr, 1, 64)),
                         Stoul(SubSeq(lpstr, 65, Len(lpstr))).value)
    ELSE Parsed(NullUniValue, UintToArith256(tip), nTransactionsUpdatedLast)

\* LEAVE_CRITICAL_SECTION with the mutex kept
LeaveCriticalSectionKept(holder) == holder

\* LEAVE_CRITICAL_SECTION(cs_main): the mutex has no holder
LeaveCriticalSection(holder) == "none"

\* ENTER_CRITICAL_SECTION(cs_main), once the mutex is free
EnterCriticalSection(holder, thread) == thread

\* the condition of the wait loop with IsRPCRunning() left out
KeepsWaitingDeaf(g_best_block, hashWatchedChain, running) ==
    UintToArith256(g_best_block) = hashWatchedChain

\* the condition of the wait loop
KeepsWaiting(g_best_block, hashWatchedChain, running) ==
    UintToArith256(g_best_block) = hashWatchedChain /\ running

(***************************************************************************)
(* getnetworkhashps (rpc/mining.cpp).  An int division or remainder by 0   *)
(* is undefined behaviour: the builds either fault at the instruction (a   *)
(* divide error) or go on, the quotient 0 and the remainder the dividend.  *)
(***************************************************************************)
Computed(value) == [fault |-> FALSE, value |-> value]
Faulted == [fault |-> TRUE, value |-> 0]

Divide(a, b) ==
    IF b = 0 THEN {Faulted, Computed(0)} ELSE {Computed(a \div b)}

Remainder(a, b) ==
    IF b = 0 THEN {Faulted, Computed(a)} ELSE {Computed(a % b)}

\* Params::DifficultyAdjustmentInterval(nHeight) and what comes of it
DifficultyAdjustmentIntervalOutcomes(params, nHeight) ==
    IF nHeight < LwmaHeight
    THEN Divide(params.nPowTargetTimespan, params.nPowTargetSpacing)
    ELSE Divide(params.nPowTargetTimespan, params.nPowTargetSpacingV2)

\* the reply: 0, or the work of the blocks looked at over the seconds they
\* span (the work is not worked out here, the blocks and the seconds are)
HashPS(blocks, timeDiff) ==
    [kind |-> "number", blocks |-> blocks, timeDiff |-> timeDiff]

\* asked: DifficultyAdjustmentInterval was called, and gave interval
HashPSOutcome(fault, asked, interval, reply) ==
    [fault |-> fault, asked |-> asked, interval |-> interval, reply |-> reply]

\* lookup <= 0: pb->nHeight % DifficultyAdjustmentInterval(pb->nHeight + 1) + 1
LookupSinceChange(pbHeight, params) ==
    UNION {IF interval.fault THEN {[fault |-> TRUE, interval |-> 0, lookup |-> 0]}
           ELSE {[fault |-> rest.fault, interval |-> interval.value,
                  lookup |-> rest.value + 1] :
                   rest \in Remainder(pbHeight, interval.value)} :
             interval \in DifficultyAdjustmentIntervalOutcomes(params, pbHeight + 1)}

\* minTime and maxTime over the blocks at heights lo..hi
RECURSIVE TimeSpan(_, _, _)
TimeSpan(tip, lo, hi) ==
    IF lo = hi
    THEN With(AncestorTime(tip, lo), LAMBDA t : [minTime |-> t, maxTime |-> t])
    ELSE With(TimeSpan(tip, lo, (lo + hi) \div 2), LAMBDA l :
         With(TimeSpan(tip, (lo + hi) \div 2 + 1, hi), LAMBDA h :
              [minTime |-> IF l.minTime < h.minTime THEN l.minTime ELSE h.minTime,
               maxTime |-> IF l.maxTime > h.maxTime THEN l.maxTime ELSE h.maxTime]))

\* GetNetworkHashPS from the walk on, the lookup settled
HashPSOver(tip, pbHeight, lookup) ==
    LET blocks == IF lookup > pbHeight THEN pbHeight ELSE lookup
        span == TimeSpan(tip, pbHeight - blocks, pbHeight)
    IN  IF span.minTime = span.maxTime THEN HashPS(0, 0)
        ELSE HashPS(blocks, span.maxTime - span.minTime)

\* GetNetworkHashPS(lookup, height) on the active chain
GetNetworkHashPS(tip, lookup, height, params) ==
    LET pbHeight == IF height >= 0 /\ height < tip.nHeight THEN height
                    ELSE tip.nHeight
    IN  IF pbHeight = 0 THEN {HashPSOutcome(FALSE, FALSE, 0, HashPS(0, 0))}
        ELSE IF lookup <= 0
        THEN {IF l.fault
              THEN HashPSOutcome(TRUE, TRUE, l.interval, NullUniValue)
              ELSE HashPSOutcome(FALSE, TRUE, l.interval,
                                 HashPSOver(tip, pbHeight, l.lookup)) :
                l \in LookupSinceChange(pbHeight, params)}
        ELSE {HashPSOutcome(FALSE, FALSE, 0,
                            HashPSOver(tip, pbHeight, lookup))}

(***************************************************************************)
(* The node.                                                               *)
(***************************************************************************)
VARIABLES
    consensusParams,        \* Params().GetConsensus()
    mapBlockIndex,          \* block hash -> CBlockIndex
    chainActiveTip,         \* ::ChainActive().Tip(), a block hash
    nTransactionsUpdated,   \* mempool.GetTransactionsUpdated()
    gbtCache,               \* the statics of getblocktemplate
    rpc,                    \* the last RPC call: request, what the index held
                            \* for its block, reply, what it invoked
    pow,                    \* the difficulty engine's call: arguments and result
    setAuxPowScannedParentHashes,   \* the parent hashes of connected blocks
    auxcheck,               \* the last step of block validation: the block
                            \* and what CheckAuxPowProofOfWork made of it
    cs_main,                \* the thread that holds the validation mutex
    fRPCRunning,            \* IsRPCRunning()
    longpoll                \* the thread serving a getblocktemplate call
                            \* with a longpollid: position and locals

auxVars == <<setAuxPowScannedParentHashes, auxcheck>>
lpVars == <<cs_main, fRPCRunning, longpoll>>

vars == <<consensusParams, mapBlockIndex, chainActiveTip, nTransactionsUpdated,
          gbtCache, rpc, pow, auxVars, lpVars>>

\* a parameter set with the AuxPoW switch at the LWMA height, as a network
\* that activates AuxPoW sets it
AuxpowParams == [CMainParams EXCEPT !.network = "auxpow",
                                    !.nAuxpowStartHeight = LwmaHeight]

NodeParams == ShippedParams \cup {AuxpowParams}

\* the block index holds the genesis block and the tip of the chain the
\* node has loaded; the blocks between stay out of the model
AnchorHeights == {LwmaHeight - 2, LwmaHeight - 1}
AnchorPrevHash == GetHash(Header(BASE_VERSION, NullHash, AbsentRoot))
AnchorHeader == Header(BASE_VERSION, AnchorPrevHash, 0)
UnknownHash == GetHash(Header(BASE_VERSION, hashGenesisBlock, AbsentRoot))

LoadedIndex(nHeight) ==
    [h \in {hashGenesisBlock, GetHash(AnchorHeader)} |->
       IF h = hashGenesisBlock THEN IndexEntry(GenesisHeader, 0, "valid")
       ELSE IndexEntry(AnchorHeader, nHeight, "valid")]

\* blocks the RPCs may add to the index
MaxBlocks == 1
HasRoom(index) == Cardinality(DOMAIN index) < 2 + MaxBlocks

PowIdle == [done |-> FALSE]
RpcIdle == [op |-> "none"]

\* no block under validation, no proof connected yet
AuxPowIdle ==
    /\ setAuxPowScannedParentHashes = {}
    /\ auxcheck = [op |-> "none"]

\* the RPC server running, no long poll under way, the mutex free
LongPollIdle ==
    /\ cs_main = "none"
    /\ fRPCRunning = TRUE
    /\ longpoll = [pc |-> "idle", issued |-> << >>]

Init ==
    /\ consensusParams \in NodeParams
    /\ \E nHeight \in AnchorHeights : mapBlockIndex = LoadedIndex(nHeight)
    /\ chainActiveTip = GetHash(AnchorHeader)
    /\ nTransactionsUpdated = 0
    /\ gbtCache = EmptyCache
    /\ rpc = RpcIdle
    /\ AuxPowIdle
    /\ LongPollIdle
    /\ pow = PowIdle

\* the requests miners send -----------------------------------------------
Versions == {BASE_VERSION, BASE_VERSION + AUXPOW_VERSION_BIT}

\* the headers of the indexed blocks whose predecessor the model holds too
KnownHeaders(index) ==
    {Header(index[h].nVersion, index[h].hashPrevBlock, index[h].hashMerkleRoot) :
       h \in {k \in DOMAIN index :
                index[k].hashPrevBlock \in DOMAIN index \cup {NullHash}}}

\* headers on top of a loaded or later block or of a block the node never
\* saw, as long as the index has room; headers of indexed blocks always
Headers(index) ==
    KnownHeaders(index)
    \cup (IF HasRoom(index)
          THEN {Header(v, p, r) :
                  v \in Versions,
                  p \in (DOMAIN index \ {hashGenesisBlock}) \cup {UnknownHash},
                  r \in Roots}
          ELSE {})

Wire(header, auxpow, vtx) ==
    [decodes |-> TRUE, nVersion |-> header.nVersion,
     hashPrevBlock |-> header.hashPrevBlock,
     hashMerkleRoot |-> header.hashMerkleRoot, auxpow |-> auxpow, vtx |-> vtx]

\* hex that does not decode
Garbage == [Wire(GenesisHeader, "none", "empty") EXCEPT !.decodes = FALSE]

AuxpowSlots(header) ==
    IF IsAuxpow(header) THEN {"null-parent", "proof"} ELSE {"none"}

WireBlocks(index) ==
    {Garbage}
    \cup {w \in {Wire(h, a, vtx) : h \in Headers(index),
                                   a \in {"none", "null-parent", "proof"},
                                   vtx \in {"coinbase-first", "empty"}} :
            w.auxpow \in AuxpowSlots(w)}

WireHeaders(index) ==
    {Garbage} \cup {Wire(h, "none", "empty") : h \in Headers(index)}

TemplateRequest(mode, segwit, data, validity) ==
    [mode |-> mode, segwit |-> segwit, data |-> data, validity |-> validity]

\* a call of getblocktemplate: the request, the state of the P2P layer,
\* whether GetTime() - nStart > 5, whether CreateNewBlock throws
TemplateCall(request, p2p, stale, fault) ==
    [request |-> request, p2p |-> p2p, stale |-> stale, fault |-> fault]

TemplateCalls(index) ==
    {TemplateCall(TemplateRequest("template", TRUE, Garbage, ValidState),
                  "ok", stale, fault) : stale \in BOOLEAN, fault \in BOOLEAN}
    \cup {TemplateCall(TemplateRequest("template", TRUE, Garbage, ValidState),
                       p2p, FALSE, FALSE) :
            p2p \in {"disabled", "no-peers", "initial-download"}}
    \cup {TemplateCall(TemplateRequest(m, FALSE, Garbage, ValidState),
                       "ok", FALSE, FALSE) : m \in {"template", "generate"}}
    \cup {TemplateCall(TemplateRequest("proposal", TRUE, w, v), "ok", FALSE, FALSE) :
            w \in {Garbage}
                  \cup {Wire(h, CHOOSE a \in AuxpowSlots(h) : a # "null-parent",
                             "coinbase-first") : h \in KnownHeaders(index)},
            v \in ValidationStates}

\* what the index holds for the block of a request when the call begins
StatusOf(index, wire) ==
    IF ~wire.decodes \/ GetHash(HeaderOf(wire)) \notin DOMAIN index THEN "absent"
    ELSE index[GetHash(HeaderOf(wire))].status

\* the actions -------------------------------------------------------------
SubmitBlock ==
    \E wire \in WireBlocks(mapBlockIndex), fault \in BOOLEAN :
       LET out == submitblock(mapBlockIndex, chainActiveTip, wire,
                              consensusParams, fault)
       IN  /\ mapBlockIndex' = out.index
           /\ chainActiveTip' = out.tip
           /\ rpc' = [op |-> "submitblock", request |-> wire,
                      known |-> StatusOf(mapBlockIndex, wire),
                      reply |-> out.reply, processed |-> out.processed]
           /\ UNCHANGED <<consensusParams, nTransactionsUpdated, gbtCache, pow,
                          auxVars, lpVars>>

SubmitHeader ==
    \E wire \in WireHeaders(mapBlockIndex) :
       LET out == submitheader(mapBlockIndex, chainActiveTip, wire, consensusParams)
       IN  /\ mapBlockIndex' = out.index
           /\ chainActiveTip' = out.tip
           /\ rpc' = [op |-> "submitheader", request |-> wire,
                      known |-> StatusOf(mapBlockIndex, wire),
                      reply |-> out.reply, processed |-> out.processed]
           /\ UNCHANGED <<consensusParams, nTransactionsUpdated, gbtCache, pow,
                          auxVars, lpVars>>

GetBlockTemplate ==
    \E call \in TemplateCalls(mapBlockIndex) :
       LET out == getblocktemplate(mapBlockIndex, chainActiveTip, gbtCache,
                                   nTransactionsUpdated, consensusParams,
                                   call.request, call.p2p, call.stale, call.fault)
       IN  /\ gbtCache' = out.cache
           /\ rpc' = [op |-> "getblocktemplate", request |-> call.request,
                      known |-> StatusOf(mapBlockIndex, call.request.data),
                      reply |-> out.reply, processed |-> FALSE]
           /\ UNCHANGED <<consensusParams, mapBlockIndex, chainActiveTip,
                          nTransactionsUpdated, pow, auxVars, lpVars>>

\* a transaction enters or leaves the mempool
MaxTxUpdates == 1
MempoolUpdate ==
    /\ nTransactionsUpdated < MaxTxUpdates
    /\ nTransactionsUpdated' = nTransactionsUpdated + 1
    /\ UNCHANGED <<consensusParams, mapBlockIndex, chainActiveTip, gbtCache,
                   rpc, pow, auxVars, lpVars>>

Next == SubmitBlock \/ SubmitHeader \/ GetBlockTemplate \/ MempoolUpdate

Spec == Init /\ [][Next]_vars

(***************************************************************************)
(* The difficulty engine on its own: GetNextWorkRequired applied to a      *)
(* predecessor index and a candidate header.  The chain below pindexLast   *)
(* is given by its timestamps (an even spacing, and the gap before         *)
(* pindexLast) and its bits (those of the retarget-boundary blocks and     *)
(* those of the blocks between).                                           *)
(***************************************************************************)
PowHeights ==
    {5, 143, 719, 28799, ResetWindowFirst - 1, ResetWindowFirst, 28943,
     ResetWindowLast, LwmaHeight, LwmaHeight + LwmaN}

\* the bits a chain under params can hold: those of powLimit and 0x1b0404cb
BitsOf(params) ==
    {GetCompact(params.powLimit)}
    \cup {b \in {453248203} : Le256(Target(b), params.powLimit)}

\* <<nBits, fillBits, baseBits>>
BitsPatterns(params) ==
    LET limit == GetCompact(params.powLimit)
    IN  UNION {{<<b, b, b>>, <<limit, limit, b>>, <<limit, b, limit>>,
                <<b, limit, limit>>} : b \in BitsOf(params)}

\* <<lastGap, spacing>>: the seconds between pindexLast and its predecessor
\* (negative: pindexLast is stamped earlier), and between earlier blocks
Timings == {<<1, 30>>, <<120, 120>>, <<600, 600>>, <<3000, 2400>>, <<-500, 600>>}

PowChains(params) ==
    {[nHeight |-> h, nTime |-> 1700000000, nBits |-> b[1], fillBits |-> b[2],
      baseBits |-> b[3], lastGap |-> t[1], spacing |-> t[2],
      dipAt |-> -1, dip |-> 0, missing |-> <<0, -1>>] :
       h \in PowHeights, b \in BitsPatterns(params), t \in Timings}

\* the candidate header's time, as seconds after pindexLast
BlockDelays == {1, 241}

PowInit ==
    /\ consensusParams \in ShippedParams
    /\ mapBlockIndex = LoadedIndex(LwmaHeight - 1)
    /\ chainActiveTip = GetHash(AnchorHeader)
    /\ nTransactionsUpdated = 0
    /\ gbtCache = EmptyCache
    /\ rpc = RpcIdle
    /\ AuxPowIdle
    /\ LongPollIdle
    /\ \E pindexLast \in PowChains(consensusParams) :
          pow = [done |-> FALSE, pindexLast |-> pindexLast, blockTime |-> 0,
                 result |-> 0]

\* a call GetNextWorkRequired(pindexLast, pblock, params)
Evaluate ==
    /\ ~pow.done
    /\ \E delay \in BlockDelays :
          pow' = [pow EXCEPT
                    !.done = TRUE,
                    !.blockTime = pow.pindexLast.nTime + delay,
                    !.result = GetNextWorkRequired(pow.pindexLast,
                                                   pow.pindexLast.nTime + delay,
                                                   consensusParams)]
    /\ UNCHANGED <<consensusParams, mapBlockIndex, chainActiveTip,
                   nTransactionsUpdated, gbtCache, rpc, auxVars,
                   lpVars>>

PowNext == Evaluate

PowSpec == PowInit /\ [][PowNext]_vars


(***************************************************************************)
(* LwmaCalculateNextWorkRequired on its own, over windows whose blocks     *)
(* hold any target from 1 up to powLimit.                                  *)
(***************************************************************************)
LwmaHeights == {LwmaN - 1, LwmaN, LwmaHeight + LwmaN, LwmaHeight + 1000}

\* 0x01010000 (target 1), 0x02008000 (target 128), 0x0300ffff, 0x1b0404cb and
\* the bits of powLimit
LwmaBits(params) ==
    {16842752, 33587200, 50397183, 453248203, GetCompact(params.powLimit)}

LwmaChain(h, b, f, t, dipAt, dip, missing) ==
    [nHeight |-> h, nTime |-> 1700000000, nBits |-> b, fillBits |-> f,
     baseBits |-> f, lastGap |-> t[1], spacing |-> t[2],
     dipAt |-> dipAt, dip |-> dip, missing |-> missing]

\* whole chains, every block stamped after its predecessor but the tip
LwmaWholeChains(params) ==
    {LwmaChain(h, b, f, t, -1, 0, <<0, -1>>) :
       h \in LwmaHeights, b \in LwmaBits(params), f \in LwmaBits(params),
       t \in Timings}

\* the genesis block and its successor as pindexLast
LwmaShortChains ==
    {LwmaChain(h, 453248203, 453248203, <<120, 120>>, -1, 0, <<0, -1>>) :
       h \in {0, 1}}

\* chains with ancestors that cannot be looked up: the start of the window,
\* its first block, one of its last blocks, all but the last hundred
LwmaBrokenChains ==
    UNION {{LwmaChain(h, 453248203, 453248203, <<120, 120>>, -1, 0, m) :
              m \in {<<h - LwmaN, h - LwmaN>>, <<h - LwmaN + 1, h - LwmaN + 1>>,
                     <<h - 5, h - 5>>, <<0, h - 100>>}} :
             h \in {LwmaN, LwmaHeight}}

\* chains with one block of the window stamped early, by less and by more
\* than the spacing
LwmaDippedChains ==
    UNION {{LwmaChain(h, 453248203, f, t, h - back, dip, <<0, -1>>) :
              f \in {453248203, 50397183}, back \in {1, 100},
              dip \in {100, 1000}, t \in {<<120, 120>>, <<600, 600>>}} :
             h \in {LwmaN, LwmaHeight + LwmaN}}

LwmaChains(params) ==
    LwmaWholeChains(params) \cup LwmaShortChains \cup LwmaBrokenChains
    \cup LwmaDippedChains \cup {NullIndex}

LwmaInit ==
    /\ consensusParams \in ShippedParams
    /\ mapBlockIndex = LoadedIndex(LwmaHeight - 1)
    /\ chainActiveTip = GetHash(AnchorHeader)
    /\ nTransactionsUpdated = 0
    /\ gbtCache = EmptyCache
    /\ rpc = RpcIdle
    /\ AuxPowIdle
    /\ LongPollIdle
    /\ \E pindexLast \in LwmaChains(consensusParams) :
          pow = [done |-> FALSE, pindexLast |-> pindexLast, result |-> 0,
                 crashed |-> FALSE]

\* a call LwmaCalculateNextWorkRequired(pindexLast, params)
EvaluateLwma ==
    /\ ~pow.done
    /\ \E outcome \in LwmaOutcomes(pow.pindexLast, consensusParams) :
         pow' = [pow EXCEPT !.done = TRUE,
                            !.result = outcome.result,
                            !.crashed = outcome.crashed]
    /\ UNCHANGED <<consensusParams, mapBlockIndex, chainActiveTip,
                   nTransactionsUpdated, gbtCache, rpc, auxVars,
                   lpVars>>

LwmaNext == EvaluateLwma

LwmaSpec == LwmaInit /\ [][LwmaNext]_vars


(***************************************************************************)
(* ComputeMerkleRootFromBranch on its own: a leaf of a tree, its branch    *)
(* and its position.                                                       *)
(***************************************************************************)
MaxLeaves == 5
MaxLeaf == 2

\* the trees: up to MaxLeaves transaction hashes, equal ones allowed
LeafLists == UNION {[1..n -> 1..MaxLeaf] : n \in 1..MaxLeaves}

MerkleInit ==
    /\ consensusParams \in ShippedParams
    /\ mapBlockIndex = LoadedIndex(LwmaHeight - 1)
    /\ chainActiveTip = GetHash(AnchorHeader)
    /\ nTransactionsUpdated = 0
    /\ gbtCache = EmptyCache
    /\ rpc = RpcIdle
    /\ AuxPowIdle
    /\ LongPollIdle
    /\ \E leaves \in LeafLists :
         \E nIndex \in 0..(Len(leaves) - 1) :
            pow = [done |-> FALSE, leaves |-> leaves, nIndex |-> nIndex,
                   vMerkleBranch |-> MerkleBranch(leaves, nIndex),
                   result |-> 0]

\* a call ComputeMerkleRootFromBranch(hash, vMerkleBranch, nIndex)
EvaluateBranch ==
    /\ ~pow.done
    /\ pow' = [pow EXCEPT
                 !.done = TRUE,
                 !.result = ComputeMerkleRootFromBranch(
                                pow.leaves[pow.nIndex + 1], pow.vMerkleBranch,
                                pow.nIndex)]
    /\ UNCHANGED <<consensusParams, mapBlockIndex, chainActiveTip,
                   nTransactionsUpdated, gbtCache, rpc, auxVars,
                   lpVars>>

MerkleNext == EvaluateBranch

MerkleSpec == MerkleInit /\ [][MerkleNext]_vars


(***************************************************************************)
(* Block validation with AuxPoW: CheckAuxPowProofOfWork applied to blocks  *)
(* as they arrive, and the connection of a block that passed, which is     *)
(* where the parent's hash enters setAuxPowScannedParentHashes.            *)
(***************************************************************************)
\* 0x03100000: a target between the hashes of the headers that follow a low
\* hashPrevBlock and those that follow a high one
AuxBits == {51380224}
LowHighPrev == {1, 100000}

\* the headers of the blocks: with the flag, and one without
AuxHeaders ==
    {Header(BASE_VERSION + AUXPOW_VERSION_BIT, p, r) :
       p \in LowHighPrev, r \in 0..1}
    \cup {Header(BASE_VERSION, 1, 0)}

\* the scriptSigs a parent coinbase may hold for a header: the commitment
\* behind the magic, with bytes ahead of it or after it; no magic; a
\* commitment cut short; one to the hash with the flag; that one and then
\* the right one behind a second magic; one not reversed
ScriptSigs(header) ==
    LET commit == Reverse(Uint256Bytes(hashAuxBlockExpected(header)))
        other == Reverse(Uint256Bytes(GetHash(header)))
    IN  {<<3, 1, 2, 3>> \o pchAuxPowHeader \o commit,
         pchAuxPowHeader \o commit \o <<3, 1, 2, 3>>,
         <<3, 1, 2, 3>>,
         pchAuxPowHeader \o SubSeq(commit, 1, 31),
         pchAuxPowHeader \o other,
         pchAuxPowHeader \o other \o pchAuxPowHeader \o commit,
         pchAuxPowHeader \o Uint256Bytes(hashAuxBlockExpected(header))}

\* <<vMerkleBranch, nIndex, the parent's hashMerkleRoot>> for a coinbase
\* of hash 1: alone in its block, first of two, second of two, and a root
\* that is not the branch's
MerkleProofs ==
    {<< << >>, 0, 1>>, << <<2>>, 0, Hash(1, 2)>>, << <<2>>, 1, Hash(2, 1)>>,
     << <<2>>, 0, Hash(2, 1)>>}

AuxPow(scriptSig, proof, parentPrev) ==
    [isNull |-> FALSE,
     coinbaseTx |-> [hash |-> 1, scriptSig |-> scriptSig],
     vMerkleBranch |-> proof[1], nIndex |-> proof[2],
     parentBlock |-> Header(2, parentPrev, proof[3])]

\* every scriptSig with the first merkle proof, every merkle proof with the
\* first scriptSig, each under a parent of low and of high hash
AuxPows(header) ==
    {AuxPow(sig, << << >>, 0, 1>>, p) :
       sig \in ScriptSigs(header), p \in LowHighPrev}
    \cup {AuxPow(<<3, 1, 2, 3>> \o pchAuxPowHeader
                   \o Reverse(Uint256Bytes(hashAuxBlockExpected(header))),
                 proof, p) :
            proof \in MerkleProofs, p \in LowHighPrev}

AuxBlock(header, nBits, m_auxpow) ==
    [nVersion |-> header.nVersion, hashPrevBlock |-> header.hashPrevBlock,
     hashMerkleRoot |-> header.hashMerkleRoot, nBits |-> nBits,
     m_auxpow |-> m_auxpow]

AuxBlocks ==
    {AuxBlock(header, nBits, NoAuxPow) :
       header \in AuxHeaders, nBits \in AuxBits}
    \cup UNION {{AuxBlock(header, nBits, ap) : ap \in AuxPows(header)} :
                  header \in AuxHeaders, nBits \in AuxBits}

\* blocks with AuxPoW the node connects
MaxConnected == 2

AuxInit ==
    /\ consensusParams \in ShippedParams
    /\ mapBlockIndex = LoadedIndex(LwmaHeight - 1)
    /\ chainActiveTip = GetHash(AnchorHeader)
    /\ nTransactionsUpdated = 0
    /\ gbtCache = EmptyCache
    /\ rpc = RpcIdle
    /\ pow = PowIdle
    /\ AuxPowIdle
    /\ LongPollIdle

\* what the step before did with another block of the same parent: "none",
\* or "verified" (it passed), or "connected"
TwinOf(check, block) ==
    IF /\ check.op # "none"
       /\ check.result.ok
       /\ ~block.m_auxpow.isNull
       /\ GetHash(HeaderOf(check.block)) # GetHash(HeaderOf(block))
       /\ GetParentBlockHash(check.block.m_auxpow)
            = GetParentBlockHash(block.m_auxpow)
    THEN IF check.op = "verify" THEN "verified" ELSE "connected"
    ELSE "none"

\* a call CheckAuxPowProofOfWork(block, params)
VerifyAuxPow ==
    /\ \E block \in AuxBlocks :
          auxcheck' = [op |-> "verify", block |-> block,
                       result |-> CheckAuxPowProofOfWork(
                                      block, consensusParams,
                                      setAuxPowScannedParentHashes),
                       twin |-> TwinOf(auxcheck, block)]
    /\ UNCHANGED <<consensusParams, mapBlockIndex, chainActiveTip,
                   nTransactionsUpdated, gbtCache, rpc, pow,
                   setAuxPowScannedParentHashes, lpVars>>

\* the connection of the block that has just passed: the hash of its parent
\* enters the set
ConnectAuxPow ==
    /\ auxcheck.op = "verify"
    /\ auxcheck.result.ok
    /\ Cardinality(setAuxPowScannedParentHashes) < MaxConnected
    /\ setAuxPowScannedParentHashes' =
          setAuxPowScannedParentHashes
            \cup {GetParentBlockHash(auxcheck.block.m_auxpow)}
    /\ auxcheck' = [auxcheck EXCEPT !.op = "connect"]
    /\ UNCHANGED <<consensusParams, mapBlockIndex, chainActiveTip,
                   nTransactionsUpdated, gbtCache, rpc, pow, lpVars>>

AuxNext == VerifyAuxPow \/ ConnectAuxPow

AuxSpec == AuxInit /\ [][AuxNext]_vars


(***************************************************************************)
(* Concurrent validations: blocks arrive on the message-handler thread and *)
(* on an RPC thread (submitblock).  Each thread verifies its block with    *)
(* CheckAuxPowProofOfWork, which takes cs_main for the look into            *)
(* setAuxPowScannedParentHashes and releases it on return, and connects    *)
(* the block later, under cs_main again.  auxcheck keeps, per thread, where *)
(* it stands ("idle", "verified", "rejected", "connected") and its block.  *)
(***************************************************************************)
ValidationThreads == {"msghand", "httpworker"}

\* blocks with the flag that follow the same block of this chain, their
\* proofs carrying the first scriptSig under a parent of low hash: the two
\* headers share each parent
ConcurrentBlocks ==
    {AuxBlock(header, nBits,
              AuxPow(<<3, 1, 2, 3>> \o pchAuxPowHeader
                       \o Reverse(Uint256Bytes(hashAuxBlockExpected(header))),
                     proof, 1)) :
       header \in {Header(BASE_VERSION + AUXPOW_VERSION_BIT, 1, r) :
                     r \in 0..1},
       nBits \in AuxBits, proof \in MerkleProofs}

ConcurrentInit ==
    /\ consensusParams \in ShippedParams
    /\ mapBlockIndex = LoadedIndex(LwmaHeight - 1)
    /\ chainActiveTip = GetHash(AnchorHeader)
    /\ nTransactionsUpdated = 0
    /\ gbtCache = EmptyCache
    /\ rpc = RpcIdle
    /\ pow = PowIdle
    /\ setAuxPowScannedParentHashes = {}
    /\ auxcheck = [op |-> "validations",
                   pc |-> [t \in ValidationThreads |-> "idle"],
                   block |-> [t \in ValidationThreads |->
                                AuxBlock(AnchorHeader, 0, NoAuxPow)]]
    /\ LongPollIdle

\* thread t calls CheckAuxPowProofOfWork(block, params): the steps up to the
\* commitment read the block alone; LOCK(cs_main) spans the look into the
\* set and nothing else, the mutex being free again when the call returns
ValidateAuxPow(t) ==
    /\ auxcheck.pc[t] = "idle"
    /\ cs_main = "none"
    /\ \E block \in ConcurrentBlocks :
          auxcheck' =
            [auxcheck EXCEPT
               !.block[t] = block,
               !.pc[t] = IF CheckAuxPowProofOfWork(
                               block, consensusParams,
                               setAuxPowScannedParentHashes).ok
                         THEN "verified" ELSE "rejected"]
    /\ UNCHANGED <<consensusParams, mapBlockIndex, chainActiveTip,
                   nTransactionsUpdated, gbtCache, rpc, pow,
                   setAuxPowScannedParentHashes, lpVars>>

\* thread t connects the block it verified: under cs_main, the hash of the
\* block's parent enters the set
ConnectBlock(t) ==
    /\ auxcheck.pc[t] = "verified"
    /\ cs_main = "none"
    /\ setAuxPowScannedParentHashes' =
          setAuxPowScannedParentHashes
            \cup {GetParentBlockHash(auxcheck.block[t].m_auxpow)}
    /\ auxcheck' = [auxcheck EXCEPT !.pc[t] = "connected"]
    /\ UNCHANGED <<consensusParams, mapBlockIndex, chainActiveTip,
                   nTransactionsUpdated, gbtCache, rpc, pow, lpVars>>

ConcurrentNext ==
    \E t \in ValidationThreads : ValidateAuxPow(t) \/ ConnectBlock(t)

ConcurrentSpec == ConcurrentInit /\ [][ConcurrentNext]_vars


(***************************************************************************)
(* Writing a block to a stream: CBlock::SerializationOp with a writing     *)
(* ser_action, as run on every block the node stores, relays or hashes in  *)
(* full.                                                                    *)
(***************************************************************************)
\* CAuxPow(): SetNull leaves no coinbase transaction, no branch, index 0
\* and a null parent header
EmptyAuxPow ==
    [isNull |-> FALSE,
     coinbaseTx |-> [hash |-> NullHash, scriptSig |-> << >>],
     vMerkleBranch |-> << >>, nIndex |-> 0,
     parentBlock |-> Header(BASE_VERSION, NullHash, 0)]

Written(block, stream) ==
    [crashed |-> FALSE, block |-> block, stream |-> stream]
WriteFault(block) == [crashed |-> TRUE, block |-> block, stream |-> << >>]

\* CBlock::SerializationOp, writing: the header, then the proof if the flag
\* is set.  With the flag set and no proof, m_auxpow is first made to point
\* to a new CAuxPow, which is then written; its coinbaseTx is a null
\* pointer, and writing through it is undefined: the write faults, or goes
\* on with the empty proof.  The outcomes hold the block as it is afterwards.
SerializeOutcomes(block) ==
    IF IsAuxpow(block)
    THEN IF block.m_auxpow.isNull
         THEN With([block EXCEPT !.m_auxpow = EmptyAuxPow],
                   LAMBDA made :
                     {WriteFault(made),
                      Written(made, <<HeaderOf(made), made.m_auxpow>>)})
         ELSE {Written(block, <<HeaderOf(block), block.m_auxpow>>)}
    ELSE {Written(block, <<HeaderOf(block)>>)}

SerializeInit == AuxInit

\* a block is written
SerializeBlock ==
    /\ \E block \in AuxBlocks :
         \E outcome \in SerializeOutcomes(block) :
            auxcheck' = [op |-> "serialize", before |-> block,
                         after |-> outcome.block,
                         crashed |-> outcome.crashed,
                         stream |-> outcome.stream]
    /\ UNCHANGED <<consensusParams, mapBlockIndex, chainActiveTip,
                   nTransactionsUpdated, gbtCache, rpc, pow,
                   setAuxPowScannedParentHashes, lpVars>>

SerializeNext == SerializeBlock

SerializeSpec == SerializeInit /\ [][SerializeNext]_vars


(***************************************************************************)
(* The long poll among the node's threads: one RPC thread serving           *)
(* getblocktemplate calls that carry a longpollid, a validation thread      *)
(* submitting blocks, the mempool, the clock and the shutdown of the RPC    *)
(* server.  The node is connected and out of initial download.  Time is     *)
(* counted in steps of 10 seconds.                                          *)
(***************************************************************************)
FirstDeadline == 6
RetryDeadline == 1

NotAString == [isStr |-> FALSE, str |-> << >>]
StringValue(str) == [isStr |-> TRUE, str |-> str]

\* the longpollid values of the requests: one that is no string; the hash
\* of the tip followed by the counter of the last template, by another
\* counter, by a letter, by nothing, by two digits, by a digit and a letter,
\* and by a blank and a digit; the counter of the last template behind
\* another hash, behind 63 characters and behind 64 that are not all
\* hexadecimal
LongPollIds(tip, nTransactionsUpdatedLast) ==
    {NotAString}
    \cup {StringValue(GetHex(tip) \o suffix) :
            suffix \in {to_string(nTransactionsUpdatedLast), to_string(1),
                        <<"x">>, << >>, <<"1", "2">>, <<"1", "x">>,
                        <<" ", "7">>}}
    \cup {StringValue(prefix \o to_string(nTransactionsUpdatedLast)) :
            prefix \in {GetHex(UnknownHash), Tail(GetHex(tip)),
                        <<"g">> \o Tail(GetHex(tip))}}

\* result.pushKV("longpollid", ...): the hash of the template's predecessor
\* in hexadecimal, followed by the counter of the template in decimal
LongPollIdString(reply) ==
    GetHex(reply.longpollid[1]) \o to_string(reply.longpollid[2])

\* the longpollid of the first template a client was given, which it may
\* send again at any later time (none yet: the empty string)
IssuedIds(issued) == IF issued = << >> THEN {} ELSE {StringValue(issued)}

\* the transactions one call of AddTransactionsUpdated(n) may add
TxBurst == 10

LongPollInit ==
    /\ consensusParams = CMainParams
    /\ mapBlockIndex = LoadedIndex(LwmaHeight - 1)
    /\ chainActiveTip = GetHash(AnchorHeader)
    /\ nTransactionsUpdated \in {0, 10}
    /\ gbtCache = EmptyCache
    /\ rpc = RpcIdle
    /\ pow = PowIdle
    /\ AuxPowIdle
    /\ LongPollIdle

\* getblocktemplate with a longpollid, up to the reading of the
\* longpollid: cs_main is taken; a longpollid that is refused ends the call
LongPollEnter ==
    /\ longpoll.pc \in {"idle", "done"}
    /\ fRPCRunning
    /\ cs_main = "none"
    /\ \E lpval \in LongPollIds(chainActiveTip, gbtCache.nTransactionsUpdatedLast)
                      \cup IssuedIds(longpoll.issued) :
         LET parsed == ReadLongPollId(lpval, chainActiveTip,
                                      gbtCache.nTransactionsUpdatedLast)
         IN  /\ longpoll' =
                  [pc |-> IF parsed.reply = NullUniValue THEN "parsed" ELSE "done",
                   lpval |-> lpval,
                   reply |-> parsed.reply,
                   hashWatchedChain |-> parsed.hashWatchedChain,
                   nTransactionsUpdatedLastLP |-> parsed.nTransactionsUpdatedLastLP,
                   untilCheck |-> 0, elapsed |-> 0, cause |-> "none",
                   issued |-> longpoll.issued]
             /\ cs_main' = IF parsed.reply = NullUniValue THEN "rpc" ELSE "none"
    /\ UNCHANGED <<consensusParams, mapBlockIndex, chainActiveTip,
                   nTransactionsUpdated, gbtCache, rpc, pow, auxVars,
                   fRPCRunning>>

\* LEAVE_CRITICAL_SECTION(cs_main) and the setting of checktxtime
LongPollLeave ==
    /\ longpoll.pc = "parsed"
    /\ cs_main' = LeaveCriticalSection(cs_main)
    /\ longpoll' = [longpoll EXCEPT !.pc = "waiting",
                                    !.untilCheck = FirstDeadline]
    /\ UNCHANGED <<consensusParams, mapBlockIndex, chainActiveTip,
                   nTransactionsUpdated, gbtCache, rpc, pow, auxVars,
                   fRPCRunning>>

\* the test of the loop, on entry, after a notification or after a spurious
\* wake-up, when it ends the wait
LongPollWake ==
    /\ longpoll.pc = "waiting"
    /\ ~KeepsWaiting(chainActiveTip, longpoll.hashWatchedChain, fRPCRunning)
    /\ longpoll' = [longpoll EXCEPT
                      !.pc = "exited",
                      !.cause = IF fRPCRunning THEN "tip" ELSE "shutdown"]
    /\ UNCHANGED <<consensusParams, mapBlockIndex, chainActiveTip,
                   nTransactionsUpdated, gbtCache, rpc, pow, auxVars,
                   cs_main, fRPCRunning>>

\* wait_until returns cv_status::timeout: the mempool test, the next
\* deadline, the test of the loop
LongPollTimeout ==
    /\ longpoll.pc = "waiting"
    /\ longpoll.untilCheck = 0
    /\ longpoll' =
         IF nTransactionsUpdated # longpoll.nTransactionsUpdatedLastLP
         THEN [longpoll EXCEPT !.pc = "exited", !.cause = "mempool"]
         ELSE IF ~KeepsWaiting(chainActiveTip, longpoll.hashWatchedChain,
                               fRPCRunning)
         THEN [longpoll EXCEPT
                 !.pc = "exited", !.untilCheck = RetryDeadline,
                 !.cause = IF fRPCRunning THEN "tip" ELSE "shutdown"]
         ELSE [longpoll EXCEPT !.untilCheck = RetryDeadline]
    /\ UNCHANGED <<consensusParams, mapBlockIndex, chainActiveTip,
                   nTransactionsUpdated, gbtCache, rpc, pow, auxVars,
                   cs_main, fRPCRunning>>

\* 10 seconds pass while the thread waits
Tick ==
    /\ longpoll.pc = "waiting"
    /\ longpoll.untilCheck > 0
    /\ longpoll' = [longpoll EXCEPT
                      !.untilCheck = longpoll.untilCheck - 1,
                      !.elapsed = IF longpoll.elapsed < FirstDeadline
                                  THEN longpoll.elapsed + 1
                                  ELSE FirstDeadline]
    /\ UNCHANGED <<consensusParams, mapBlockIndex, chainActiveTip,
                   nTransactionsUpdated, gbtCache, rpc, pow, auxVars,
                   cs_main, fRPCRunning>>

\* ENTER_CRITICAL_SECTION(cs_main)
LongPollReenter ==
    /\ longpoll.pc = "exited"
    /\ cs_main = "none"
    /\ cs_main' = EnterCriticalSection(cs_main, "rpc")
    /\ longpoll' = [longpoll EXCEPT !.pc = "locked"]
    /\ UNCHANGED <<consensusParams, mapBlockIndex, chainActiveTip,
                   nTransactionsUpdated, gbtCache, rpc, pow, auxVars,
                   fRPCRunning>>

\* the rest of getblocktemplate: the test of IsRPCRunning, the template, the
\* return, which ends the scope of LOCK(cs_main)
LongPollReturn ==
    /\ longpoll.pc = "locked"
    /\ \E stale \in BOOLEAN :
         LET out == GetTemplate(mapBlockIndex, chainActiveTip, gbtCache,
                                nTransactionsUpdated, consensusParams,
                                TemplateRequest("template", TRUE, Garbage,
                                                ValidState),
                                "ok", stale, FALSE)
         IN  IF ~fRPCRunning
             THEN /\ longpoll' = [longpoll EXCEPT
                                    !.pc = "done",
                                    !.reply = JSONRPCError(
                                                "RPC_CLIENT_NOT_CONNECTED",
                                                "Shutting down")]
                  /\ gbtCache' = gbtCache
             ELSE /\ longpoll' =
                       [longpoll EXCEPT
                          !.pc = "done",
                          !.reply = out.reply,
                          !.issued = IF out.reply.kind = "object"
                                        /\ longpoll.issued = << >>
                                     THEN LongPollIdString(out.reply)
                                     ELSE longpoll.issued]
                  /\ gbtCache' = out.cache
    /\ cs_main' = "none"
    /\ UNCHANGED <<consensusParams, mapBlockIndex, chainActiveTip,
                   nTransactionsUpdated, rpc, pow, auxVars, fRPCRunning>>

\* another thread takes cs_main to validate a block
ValidationEnter ==
    /\ cs_main = "none"
    /\ HasRoom(mapBlockIndex)
    /\ cs_main' = "validation"
    /\ UNCHANGED <<consensusParams, mapBlockIndex, chainActiveTip,
                   nTransactionsUpdated, gbtCache, rpc, pow, auxVars,
                   fRPCRunning, longpoll>>

\* and submits a block on the tip, which may become the tip, and lets go
ValidationSubmit ==
    /\ cs_main = "validation"
    /\ \E r \in Roots :
         LET out == submitblock(mapBlockIndex, chainActiveTip,
                                Wire(Header(BASE_VERSION, chainActiveTip, r),
                                     "none", "coinbase-first"),
                                consensusParams, FALSE)
         IN  /\ mapBlockIndex' = out.index
             /\ chainActiveTip' = out.tip
    /\ cs_main' = "none"
    /\ UNCHANGED <<consensusParams, nTransactionsUpdated, gbtCache, rpc, pow,
                   auxVars, fRPCRunning, longpoll>>

\* the RPC server is told to stop
StopRPC ==
    /\ fRPCRunning
    /\ fRPCRunning' = FALSE
    /\ UNCHANGED <<consensusParams, mapBlockIndex, chainActiveTip,
                   nTransactionsUpdated, gbtCache, rpc, pow, auxVars,
                   cs_main, longpoll>>

\* CTxMemPool::AddTransactionsUpdated(n) with many transactions at once,
\* as when a block is connected or disconnected
MempoolUpdateMany ==
    /\ nTransactionsUpdated < TxBurst
    /\ nTransactionsUpdated' = nTransactionsUpdated + TxBurst
    /\ UNCHANGED <<consensusParams, mapBlockIndex, chainActiveTip, gbtCache,
                   rpc, pow, auxVars, lpVars>>

LongPollNext ==
    \/ LongPollEnter
    \/ LongPollLeave
    \/ LongPollWake
    \/ LongPollTimeout
    \/ Tick
    \/ LongPollReenter
    \/ LongPollReturn
    \/ ValidationEnter
    \/ ValidationSubmit
    \/ StopRPC
    \/ MempoolUpdate
    \/ MempoolUpdateMany

LongPollSpec == LongPollInit /\ [][LongPollNext]_vars

\* the clock goes on, and a wait_until past its deadline returns
LongPollFairSpec ==
    /\ LongPollInit
    /\ [][LongPollNext]_vars
    /\ WF_vars(Tick)
    /\ WF_vars(LongPollTimeout)


(***************************************************************************)
(* getnetworkhashps on its own, over active chains of several heights      *)
(* under the shipped parameter sets.                                       *)
(***************************************************************************)
HashPSChains ==
    {[nHeight |-> h, nTime |-> 1700000000, nBits |-> 453248203,
      fillBits |-> 453248203, baseBits |-> 453248203,
      lastGap |-> t[1], spacing |-> t[2],
      dipAt |-> -1, dip |-> 0, missing |-> <<0, -1>>] :
       h \in {0, 1, 143, 720, LwmaHeight - 2, LwmaHeight - 1, LwmaHeight,
              LwmaHeight + 719, LwmaHeight + 1000},
       t \in {<<120, 120>>, <<-500, 600>>}}

HashPSInit ==
    /\ consensusParams \in ShippedParams
    /\ mapBlockIndex = LoadedIndex(LwmaHeight - 1)
    /\ chainActiveTip = GetHash(AnchorHeader)
    /\ nTransactionsUpdated = 0
    /\ gbtCache = EmptyCache
    /\ pow = PowIdle
    /\ AuxPowIdle
    /\ LongPollIdle
    /\ \E tip \in HashPSChains : rpc = [op |-> "none", tip |-> tip]

\* a call getnetworkhashps nblocks height
GetNetworkHashPSCall ==
    /\ rpc.op = "none"
    /\ \E lookup \in {-1, 0, 1, 48, 720}, height \in {-1, 100, 28999, 40000} :
       \E outcome \in GetNetworkHashPS(rpc.tip, lookup, height, consensusParams) :
         rpc' = [op |-> "getnetworkhashps", tip |-> rpc.tip, lookup |-> lookup,
                 height |-> height, fault |-> outcome.fault,
                 asked |-> outcome.asked, interval |-> outcome.interval,
                 reply |-> outcome.reply]
    /\ UNCHANGED <<consensusParams, mapBlockIndex, chainActiveTip,
                   nTransactionsUpdated, gbtCache, pow, auxVars, lpVars>>

HashPSNext == GetNetworkHashPSCall

HashPSSpec == HashPSInit /\ [][HashPSNext]_vars


(***************************************************************************)
(* CheckProofOfWork on its own: one hash checked against two compact       *)
(* values under one network's parameters.                                  *)
(***************************************************************************)
\* 0x1d00ffff, 0x1b0404cb, 0x207fffff, 0x1e00ffff; 0x1d80ffff (sign bit);
\* 0 and 0x1d000000 (zero); 0x21010001 (overflows to 2^240)
CheckBits ==
    {486604799, 453248203, 545259519, 503382015, 495058943, 0, 486539264,
     553713665}

MaxHash256 == [i \in 1..WIDTH |-> 15]

\* the hashes at, and one above, each target, and both ends of the range
CheckHashes ==
    {Zero256, MaxHash256}
    \cup {Target(b) : b \in CheckBits}
    \cup {Add256(Target(b), FromInt(1)) : b \in CheckBits}

CheckInit ==
    /\ consensusParams \in ShippedParams
    /\ mapBlockIndex = LoadedIndex(LwmaHeight - 1)
    /\ chainActiveTip = GetHash(AnchorHeader)
    /\ nTransactionsUpdated = 0
    /\ gbtCache = EmptyCache
    /\ rpc = RpcIdle
    /\ AuxPowIdle
    /\ LongPollIdle
    /\ \E hash \in CheckHashes, nBits \in CheckBits, nBitsOther \in CheckBits :
          pow = [done |-> FALSE, hash |-> hash, nBits |-> nBits,
                 nBitsOther |-> nBitsOther, result |-> FALSE,
                 resultOther |-> FALSE]

\* the calls CheckProofOfWork(hash, nBits, params) and
\* CheckProofOfWork(hash, nBitsOther, params)
CheckWork ==
    /\ ~pow.done
    /\ pow' = [pow EXCEPT
                 !.done = TRUE,
                 !.result = CheckProofOfWork(pow.hash, pow.nBits,
                                             consensusParams),
                 !.resultOther = CheckProofOfWork(pow.hash, pow.nBitsOther,
                                                  consensusParams)]
    /\ UNCHANGED <<consensusParams, mapBlockIndex, chainActiveTip,
                   nTransactionsUpdated, gbtCache, rpc, auxVars,
                   lpVars>>

CheckNext == CheckWork

CheckSpec == CheckInit /\ [][CheckNext]_vars


(***************************************************************************)
(* Properties of the mining RPCs, checked under Spec.                      *)
(***************************************************************************)

\* the block the last submitblock call decoded, and the height found for it
SubmittedBlock == DecodeHexBlk(rpc.request)
PrevKnown == rpc.request.hashPrevBlock \in DOMAIN mapBlockIndex
WouldBeHeight == mapBlockIndex[rpc.request.hashPrevBlock].nHeight + 1

GateReplies ==
    {"rejected: bad-auxpow-unexpected", "rejected: bad-auxpow-version-missing",
     "rejected: bad-auxpow-data-missing"}

\* the reply the AuxPoW table of submitBlock asks for, "" where it lets the
\* block pass
GateTable(nHeight, start, flag, proof) ==
    IF nHeight < start /\ flag THEN "rejected: bad-auxpow-unexpected"
    ELSE IF nHeight >= start /\ ~flag THEN "rejected: bad-auxpow-version-missing"
    ELSE IF nHeight >= start /\ flag /\ ~proof
    THEN "rejected: bad-auxpow-data-missing"
    ELSE ""

C1_Step ==
    (/\ rpc'.op = "submitblock"
     /\ rpc'.request.decodes
     /\ rpc'.request.hashPrevBlock \in DOMAIN mapBlockIndex)
    => LET block == DecodeHexBlk(rpc'.request)
           expected == GateTable(mapBlockIndex[block.hashPrevBlock].nHeight + 1,
                                 consensusParams.nAuxpowStartHeight,
                                 IsAuxpow(block), block.m_auxpow)
       IN  IF expected # ""
           THEN /\ rpc'.reply = StringReply(expected)
                /\ ~rpc'.processed
                /\ UNCHANGED <<mapBlockIndex, chainActiveTip>>
           ELSE rpc'.reply.text \notin GateReplies

\* C1: submitblock of a decoded block with a known previous block, h being
\* that block's height + 1: below nAuxpowStartHeight with the flag the reply
\* is 'rejected: bad-auxpow-unexpected', at or above without the flag
\* 'rejected: bad-auxpow-version-missing', at or above with the flag and no
\* proof 'rejected: bad-auxpow-data-missing'; in these three cases
\* ProcessNewBlock is not invoked and the block index and the tip stay as
\* they are; in the two other cases the call goes past the gate.
C1_AuxPowGate == [][C1_Step]_vars

\* a flagged block without proof at the start height was turned away
C1_Witness ==
    /\ rpc.op = "submitblock"
    /\ rpc.request.decodes
    /\ PrevKnown
    /\ WouldBeHeight >= consensusParams.nAuxpowStartHeight
    /\ IsAuxpow(SubmittedBlock)
    /\ ~SubmittedBlock.m_auxpow
    /\ rpc.reply = StringReply("rejected: bad-auxpow-data-missing")
    /\ ~rpc.processed

\* C2: submitblock of a block whose previous-block hash is not in the block
\* index replies the string 'inconclusive-not-best-prevblk' (a value, not an
\* error).
C2_UnknownPrevReply ==
    (/\ rpc.op = "submitblock"
     /\ rpc.request.decodes
     /\ rpc.request.hashPrevBlock # NullHash
     /\ ~PrevKnown)
    => rpc.reply = StringReply("inconclusive-not-best-prevblk")

\* the block as it was first sent: with its coinbase, and with the proof
\* when its version carries the flag
SentWhole ==
    /\ rpc.request.decodes
    /\ rpc.request.vtx = "coinbase-first"
    /\ (IsAuxpow(rpc.request) => rpc.request.auxpow = "proof")

\* C3: a submitblock call for a block the index already holds as fully
\* valid replies 'duplicate', for one it holds as failed 'duplicate-invalid',
\* and in neither case is ProcessNewBlock invoked.
C3_DuplicatesShortCircuit ==
    (rpc.op = "submitblock" /\ SentWhole)
    => /\ (rpc.known = "valid"
             => rpc.reply = StringReply("duplicate") /\ ~rpc.processed)
       /\ (rpc.known = "failed"
             => rpc.reply = StringReply("duplicate-invalid") /\ ~rpc.processed)

\* a block that failed when it was connected was submitted again
C3_Witness ==
    /\ rpc.op = "submitblock"
    /\ SentWhole
    /\ rpc.known = "failed"
    /\ rpc.reply = StringReply("duplicate-invalid")
    /\ ~rpc.processed

\* the validation state a proposal call handed to BIP22ValidationResult
ProposalJudged ==
    /\ rpc.op = "getblocktemplate"
    /\ rpc.request.mode = "proposal"
    /\ rpc.request.data.decodes
    /\ rpc.known \notin {"valid", "failed"}

\* C4: BIP22ValidationResult follows the reply taxonomy: valid gives null,
\* an internal error an error with the state's text, a header duplicating
\* an invalid one 'duplicate-inconclusive', an invalid previous block
\* 'inconclusive-not-best-prevblk' whatever the reject reason, any other
\* rejection 'rejected' or 'rejected: <reason>'.
C4_ReplyTaxonomy ==
    ProposalJudged
    => LET state == rpc.request.validity
       IN  IF state.mode = "valid" THEN rpc.reply = NullUniValue
           ELSE IF state.mode = "error"
           THEN rpc.reply.kind = "error" /\ rpc.reply.text = state.reason
           ELSE IF state.result = "BLOCK_INVALID_HEADER"
                   /\ state.reason = "duplicate-invalid"
           THEN rpc.reply = StringReply("duplicate-inconclusive")
           ELSE IF state.result = "BLOCK_INVALID_PREV"
           THEN rpc.reply = StringReply("inconclusive-not-best-prevblk")
           ELSE rpc.reply \in {StringReply("rejected"),
                               StringReply("rejected: " \o state.reason)}

\* C5: submitheader hands a header to header processing only when its
\* would-be height is below nAuxpowStartHeight; at or above it the call
\* fails with an invalid-request error and ProcessNewBlockHeaders is not
\* invoked.
C5_SubmitHeaderGate ==
    rpc.op = "submitheader"
    => /\ (rpc.request.decodes /\ PrevKnown
             /\ WouldBeHeight >= consensusParams.nAuxpowStartHeight)
          => /\ rpc.reply.kind = "error"
             /\ rpc.reply.code = "RPC_INVALID_REQUEST"
             /\ ~rpc.processed
       /\ rpc.processed
          => /\ rpc.request.decodes
             /\ (IF PrevKnown THEN WouldBeHeight ELSE 0)
                   < consensusParams.nAuxpowStartHeight

\* a header at the start height was refused
C5_Witness ==
    /\ rpc.op = "submitheader"
    /\ rpc.request.decodes
    /\ PrevKnown
    /\ WouldBeHeight = consensusParams.nAuxpowStartHeight
    /\ rpc.reply.code = "RPC_INVALID_REQUEST"
    /\ ~rpc.processed

\* C6: under the shipped network parameters a block of would-be height
\* 29000 or more with the AuxPoW flag and no proof gets the reply
\* 'rejected: bad-auxpow-data-missing' from submitblock.
C6_ShippedDataMissing ==
    (/\ consensusParams \in ShippedParams
     /\ rpc.op = "submitblock"
     /\ rpc.request.decodes
     /\ PrevKnown
     /\ WouldBeHeight >= LwmaHeight
     /\ IsAuxpow(SubmittedBlock)
     /\ ~SubmittedBlock.m_auxpow)
    => rpc.reply = StringReply("rejected: bad-auxpow-data-missing")

NextHeight == pow.pindexLast.nHeight + 1
PowLimitBits == GetCompact(consensusParams.powLimit)
InResetWindow ==
    pow.pindexLast.nHeight >= 28930 /\ pow.pindexLast.nHeight <= 28999
AtLegacyBoundary ==
    /\ NextHeight < 29000
    /\ NextHeight % DifficultyAdjustmentInterval(consensusParams, NextHeight) = 0

\* C8: for pindexLast in 28930..28999 GetNextWorkRequired returns
\* powLimit.compact() whatever the bits, the timestamps and the candidate
\* header are; otherwise, from height 29000 on, the LWMA result for
\* pindexLast; otherwise the legacy retarget result.
C8_Dispatch ==
    pow.done
    => pow.result =
         IF InResetWindow THEN PowLimitBits
         ELSE IF NextHeight >= 29000
         THEN LwmaCalculateNextWorkRequired(pow.pindexLast, consensusParams)
         ELSE LegacyNextWorkRequired(pow.pindexLast, pow.blockTime,
                                     consensusParams)

\* the last block of the reset window, mined at a harder target, is
\* followed by a block at powLimit and not at the LWMA target
C8_Witness ==
    /\ pow.done
    /\ pow.pindexLast.nHeight = 28999
    /\ pow.pindexLast.nBits # PowLimitBits
    /\ pow.result = PowLimitBits
    /\ pow.result # LwmaCalculateNextWorkRequired(pow.pindexLast, consensusParams)

\* C9 as stated: with powNoRetargeting set GetNextWorkRequired returns
\* pindexLast.bits for every height of pindexLast and every candidate header.
C9_AlwaysLastBits ==
    (pow.done /\ consensusParams.fPowNoRetargeting)
    => pow.result = pow.pindexLast.nBits

\* C9: with powNoRetargeting set (regtest) GetNextWorkRequired returns
\* pindexLast.bits at a legacy retarget boundary outside the reset window;
\* in the reset window and from height 29000 on it returns
\* powLimit.compact(); between boundaries it returns powLimit.compact() for
\* a candidate more than two spacings late; and it returns pindexLast.bits
\* at every height when the chain's bits are all powLimit.compact().
C9_NoRetargeting ==
    (pow.done /\ consensusParams.fPowNoRetargeting)
    => /\ (~InResetWindow /\ AtLegacyBoundary)
            => pow.result = pow.pindexLast.nBits
       /\ (InResetWindow \/ NextHeight >= 29000)
            => pow.result = PowLimitBits
       /\ (/\ ~InResetWindow /\ NextHeight < 29000 /\ ~AtLegacyBoundary
           /\ pow.blockTime > pow.pindexLast.nTime
                                + consensusParams.nPowTargetSpacing * 2)
            => pow.result = PowLimitBits
       /\ (/\ pow.pindexLast.nBits = PowLimitBits
           /\ pow.pindexLast.fillBits = PowLimitBits
           /\ pow.pindexLast.baseBits = PowLimitBits)
            => pow.result = pow.pindexLast.nBits

\* a legacy boundary block at a target harder than powLimit keeps its bits
C9_Witness ==
    /\ pow.done
    /\ consensusParams.fPowNoRetargeting
    /\ ~InResetWindow
    /\ AtLegacyBoundary
    /\ pow.pindexLast.nBits # PowLimitBits
    /\ pow.result = pow.pindexLast.nBits

\* the targets before and after a retarget
PrevTarget == Target(pow.pindexLast.nBits)
NewTarget == Target(pow.result)
\* what GetCompact drops of a value it encodes in the size of nCompact:
\* less than one unit of the last of the three bytes kept
CompactUnit(nCompact) == Target(CompactSize(nCompact) * 16777216 + 1)

Retargets ==
    /\ pow.done
    /\ AtLegacyBoundary
    /\ ~consensusParams.fPowNoRetargeting
    /\ Le256(PrevTarget, consensusParams.powLimit)

\* C10 as stated: at every legacy retarget boundary the output target
\* satisfies prev/4 <= new <= prev*4 and new <= powLimit.
C10_ClampedExactly ==
    Retargets
    => /\ Le256(Div256(PrevTarget, 4), NewTarget)
       /\ Le256(NewTarget, Mul256(PrevTarget, 4))
       /\ Le256(NewTarget, consensusParams.powLimit)

\* C10: at a legacy retarget boundary outside the reset window the output
\* target satisfies new <= prev*4 and new <= powLimit, and prev/4 is below
\* new plus one unit of the compact encoding of new; in the reset window the
\* output is powLimit.
C10_ClampedUpToEncoding ==
    Retargets
    => IF InResetWindow THEN pow.result = PowLimitBits
       ELSE /\ Lt256(Div256(PrevTarget, 4),
                     Add256(NewTarget, CompactUnit(pow.result)))
            /\ Le256(NewTarget, Mul256(PrevTarget, 4))
            /\ Le256(NewTarget, consensusParams.powLimit)

\* a retarget after a short timespan whose encoded output is below prev/4
C10_Witness ==
    /\ Retargets
    /\ ~InResetWindow
    /\ Lt256(NewTarget, Div256(PrevTarget, 4))


(***************************************************************************)
(* Properties of the LWMA, checked under LwmaSpec.                         *)
(***************************************************************************)

\* C11: for every input window of N = 240 blocks (any timestamps, any
\* per-block bits that decode to a target in [1, powLimit]) the target
\* returned by LwmaCalculateNextWorkRequired decodes to a value that is
\* <= powLimit and > 0.
C11_LwmaBound ==
    (pow.done /\ pow.pindexLast # NullIndex)
    => /\ Le256(Target(pow.result), consensusParams.powLimit)
       /\ Target(pow.result) # Zero256


(***************************************************************************)
(* Properties of CheckProofOfWork, checked under CheckSpec.                *)
(***************************************************************************)

\* what the two compact values of the call decode to
Decoded == SetCompact(pow.nBits)
DecodedOther == SetCompact(pow.nBitsOther)

\* decode(bits) is non-negative, non-zero, non-overflowing and <= powLimit
InRange(decoded) ==
    /\ ~decoded.fNegative
    /\ decoded.value # Zero256
    /\ ~decoded.fOverflow
    /\ Le256(decoded.value, consensusParams.powLimit)

\* C12: CheckProofOfWork(hash, bits, params) returns true if and only if
\* decode(bits) is non-negative, non-zero, non-overflowing and <= powLimit
\* and the hash, as an unsigned 256-bit integer, is <= decode(bits).
C12_CheckProofOfWork ==
    pow.done
    => (pow.result <=> (InRange(Decoded) /\ Le256(pow.hash, Decoded.value)))

\* a hash equal to its target passes, and the other compact value of the
\* same call is refused although the hash is below what it decodes to
C12_Witness ==
    /\ pow.done
    /\ pow.result
    /\ pow.hash = Decoded.value
    /\ ~pow.resultOther
    /\ Lt256(pow.hash, DecodedOther.value)

\* C13 as stated: for every hash and every two compact values b1, b2 with
\* target(b1) > target(b2), a hash that passes under b2 passes under b1.
C13_Monotone ==
    (pow.done /\ Gt256(Decoded.value, DecodedOther.value) /\ pow.resultOther)
    => pow.result

\* C13: for every hash and every two compact values b1, b2 with
\* target(b1) > target(b2), where b1 decodes without sign or overflow to at
\* most powLimit, a hash that passes under b2 passes under b1.
C13_MonotoneInRange ==
    (/\ pow.done
     /\ Gt256(Decoded.value, DecodedOther.value)
     /\ InRange(Decoded)
     /\ pow.resultOther)
    => pow.result

\* a hash at the smaller target passes under both compact values
C13_Witness ==
    /\ pow.done
    /\ Gt256(Decoded.value, DecodedOther.value)
    /\ pow.hash = DecodedOther.value
    /\ pow.resultOther
    /\ pow.result


(***************************************************************************)
(* Properties of ComputeMerkleRootFromBranch, checked under MerkleSpec.    *)
(***************************************************************************)

\* C20: for every Merkle tree built with the Bitcoin pairing rule and every
\* leaf at position i, ComputeMerkleRootFromBranch(leaf, branch of i, i)
\* equals the tree's root.
C20_BranchGivesRoot ==
    pow.done => pow.result = ComputeMerkleRoot(pow.leaves)

\* the last leaf of a tree of five: paired with itself twice, then on the
\* right of the root
C20_Witness ==
    /\ pow.done
    /\ Len(pow.leaves) = 5
    /\ pow.nIndex = 4
    /\ pow.vMerkleBranch[1] = pow.leaves[5]
    /\ pow.result = ComputeMerkleRoot(pow.leaves)


(***************************************************************************)
(* Properties of the AuxPoW verification, checked under AuxSpec.           *)
(***************************************************************************)

\* the block last verified carries the flag and a proof, so the
\* verification reached the proof-of-work step
ReachedPow ==
    /\ auxcheck.op = "verify"
    /\ IsAuxpow(auxcheck.block)
    /\ ~auxcheck.block.m_auxpow.isNull
PassedPow ==
    auxcheck.result.error # "Bitcoin parent block PoW does not meet target"
OwnHashMeets ==
    CheckProofOfWork(UintToArith256(GetHash(HeaderOf(auxcheck.block))),
                     auxcheck.block.nBits, consensusParams)
ParentHashMeets ==
    CheckProofOfWork(
        UintToArith256(GetHash(auxcheck.block.m_auxpow.parentBlock)),
        auxcheck.block.nBits, consensusParams)

\* C14: the PoW step of the AuxPoW verification passes iff
\* CheckProofOfWork(ap.parentHeader.hash(), blk.bits) passes: a block whose
\* own hash exceeds its target passes the step when the parent's hash meets
\* it, and a block whose own hash meets the target is rejected when the
\* parent's hash does not; GetPoWHash of such a block is the parent's hash.
C14_ParentCarriesWork ==
    ReachedPow
    => /\ PassedPow <=> ParentHashMeets
       /\ GetPoWHash(auxcheck.block)
            = GetHash(auxcheck.block.m_auxpow.parentBlock)

\* a block accepted although its own hash exceeds its target
C14_Witness ==
    /\ ReachedPow
    /\ auxcheck.result.ok
    /\ ~OwnHashMeets
    /\ ParentHashMeets

\* a block rejected at the PoW step although its own hash meets its target
C14_WitnessRejected ==
    /\ ReachedPow
    /\ ~PassedPow
    /\ OwnHashMeets


\* the scriptSig of the block last verified, and where in it the magic is
\* followed by the commitment to the block
CheckedScriptSig == auxcheck.block.m_auxpow.coinbaseTx.scriptSig
MagicAt(i) ==
    /\ Len(CheckedScriptSig) >= i + 3
    /\ SubSeq(CheckedScriptSig, i, i + 3) = pchAuxPowHeader
CommitsAt(i) ==
    /\ MagicAt(i)
    /\ Len(CheckedScriptSig) >= i + 3 + 32
    /\ Reverse(SubSeq(CheckedScriptSig, i + 4, i + 3 + 32))
         = Uint256Bytes(hashAuxBlockExpected(auxcheck.block))

\* the verification reached the commitment steps, and passed them
ReachedCommitment ==
    /\ ReachedPow
    /\ auxcheck.result.error
         \notin {"Bitcoin parent block PoW does not meet target",
                 "Merkle branch for Coinbase Tx verification failed"}
PassedCommitment ==
    auxcheck.result.error
      \notin {"AuxPoW magic bytes not found in Coinbase scriptSig",
              "Commitment data too short in Coinbase scriptSig",
              "AuxPoW commitment mismatch"}

\* C15 as stated: every accepted block has, in the scriptSig of the parent
\* coinbase's first input, the magic prefix followed by at least 32 bytes
\* whose first 32, byte-reversed, equal the hash of the block's header with
\* the AuxPoW version bit cleared; and every proof whose scriptSig contains
\* the magic prefix followed by that commitment passes the commitment step.
C15_Commitment ==
    /\ (auxcheck.op = "verify" /\ auxcheck.result.ok)
         => \E i \in 1..Len(CheckedScriptSig) : CommitsAt(i)
    /\ (ReachedCommitment /\ \E i \in 1..Len(CheckedScriptSig) : CommitsAt(i))
         => PassedCommitment

\* C15: every accepted block has, in the scriptSig of the parent coinbase's
\* first input, the magic prefix followed by at least 32 bytes whose first
\* 32, byte-reversed, equal the hash of the block's header with the AuxPoW
\* version bit cleared; and every proof in whose scriptSig the first
\* occurrence of the magic prefix is followed by that commitment passes
\* the commitment step.
C15_CommitmentAtFirstMagic ==
    /\ (auxcheck.op = "verify" /\ auxcheck.result.ok)
         => \E i \in 1..Len(CheckedScriptSig) : CommitsAt(i)
    /\ (/\ ReachedCommitment
        /\ \E i \in 1..Len(CheckedScriptSig) :
              /\ CommitsAt(i)
              /\ \A k \in 1..(i - 1) : ~MagicAt(k))
         => PassedCommitment

\* an accepted block whose commitment starts behind other bytes
C15_Witness ==
    /\ auxcheck.op = "verify"
    /\ auxcheck.result.ok
    /\ ~MagicAt(1)
    /\ CommitsAt(5)


\* the block last verified passes every step but the one on the set
ValidButForSet(check) ==
    CheckAuxPowProofOfWork(check.block, consensusParams, {}).ok
DuplicateParent(check) ==
    check.result.error = "duplicate proof-of-work parent block hash"

\* the set changes only in the connection of a block that passed
InsertsAtConnection ==
    setAuxPowScannedParentHashes' # setAuxPowScannedParentHashes
    => /\ auxcheck.op = "verify"
       /\ auxcheck.result.ok
       /\ auxcheck'.op = "connect"
       /\ setAuxPowScannedParentHashes'
            = setAuxPowScannedParentHashes
                \cup {GetParentBlockHash(auxcheck.block.m_auxpow)}

\* a block that passes every other step and whose parent's hash is not in
\* the set is accepted
AcceptsFresh ==
    (/\ auxcheck'.op = "verify"
     /\ ValidButForSet(auxcheck')
     /\ GetParentBlockHash(auxcheck'.block.m_auxpow)
          \notin setAuxPowScannedParentHashes)
    => auxcheck'.result.ok

C17_MutexAroundWait ==
    /\ longpoll.pc \in {"waiting", "exited"} => cs_main # "rpc"
    /\ (longpoll.pc = "waiting" /\ cs_main = "none" /\ HasRoom(mapBlockIndex))
         => ENABLED ValidationEnter
    /\ longpoll.pc \in {"parsed", "locked"} => cs_main = "rpc"
    /\ longpoll.pc \in {"idle", "done"} => cs_main # "rpc"

\* a block is being validated while the long poll waits
C17_Witness ==
    /\ longpoll.pc = "waiting"
    /\ cs_main = "validation"

\* the long poll holds the mutex again after a wait that the tip ended
C17_WitnessLocked ==
    /\ longpoll.pc = "locked"
    /\ longpoll.cause = "tip"
    /\ cs_main = "rpc"

\* a longpollid in the format <64-hex tip hash><decimal counter>
WellFormedLongPollId(lpval) ==
    /\ lpval.isStr
    /\ Len(lpval.str) > 64
    /\ \A i \in 1..64 : HexValue(lpval.str[i]) >= 0
    /\ \A i \in 65..Len(lpval.str) : IsDecimalDigit(lpval.str[i])

\* C19: getblocktemplate accepts a longpollid only in the format
\* <64-hex tip hash><decimal tx-updated counter>: a call whose longpollid
\* has any other format, a value that is no string included, ends with an
\* invalid-parameter error.
C19_OnlyTheFormat ==
    (longpoll.pc # "idle" /\ ~WellFormedLongPollId(longpoll.lpval))
        => /\ longpoll.pc = "done"
           /\ longpoll.reply.kind = "error"
           /\ longpoll.reply.code = "RPC_INVALID_PARAMETER"

TipDiffers == UintToArith256(chainActiveTip) # longpoll.hashWatchedChain
DeadlineExpired == longpoll.untilCheck = 0
MempoolDiffers == nTransactionsUpdated # longpoll.nTransactionsUpdatedLastLP
ShuttingDown == JSONRPCError("RPC_CLIENT_NOT_CONNECTED", "Shutting down")

\* the wait ends in this step
WaitEnds == longpoll.pc = "waiting" /\ longpoll'.pc # "waiting"

\* C18: the long-poll wait ends exactly on one of: the best-block hash
\* differs from the watched hash; the RPC server no longer runs, and then
\* the call returns the "Shutting down" client-not-connected error and no
\* template; a deadline expires, the first one minute after the wait starts
\* and the next ones 10 seconds after the one before, while the mempool's
\* counter differs from the one of the longpollid.  A wait with the tip
\* changed or the server stopped eventually ends.
C18_WaitEnds ==
    /\ [][WaitEnds => /\ longpoll'.pc = "exited"
                      /\ \/ TipDiffers
                         \/ ~fRPCRunning
                         \/ DeadlineExpired /\ MempoolDiffers]_vars
    /\ [][(longpoll.pc = "parsed" /\ longpoll'.pc = "waiting")
            => longpoll'.untilCheck = FirstDeadline /\ longpoll'.elapsed = 0]_vars
    /\ [][(longpoll.pc = "waiting" /\ DeadlineExpired /\ longpoll' # longpoll
               /\ longpoll'.pc = "waiting")
            => longpoll'.untilCheck = RetryDeadline]_vars
    /\ [](longpoll.pc = "waiting" /\ DeadlineExpired
            => longpoll.elapsed >= FirstDeadline)
    /\ [](longpoll.pc = "done" /\ longpoll.cause = "shutdown"
            => longpoll.reply = ShuttingDown)
    /\ (longpoll.pc = "waiting" /\ (TipDiffers \/ ~fRPCRunning))
         ~> longpoll.pc # "waiting"

\* a call whose wait the shutdown ended has returned the error
C18_Witness ==
    /\ longpoll.pc = "done"
    /\ longpoll.cause = "shutdown"
    /\ longpoll.reply = ShuttingDown

\* a wait ended by a deadline with the mempool updated, the tip unchanged
C18_WitnessMempool ==
    /\ longpoll.pc = "exited"
    /\ longpoll.cause = "mempool"
    /\ ~TipDiffers
    /\ fRPCRunning

\* a wait past its first deadline and still going on
C18_WitnessRetry ==
    /\ longpoll.pc = "waiting"
    /\ longpoll.elapsed = FirstDeadline
    /\ longpoll.untilCheck = RetryDeadline


(***************************************************************************)
(* Further properties of the LWMA, checked under LwmaSpec.                 *)
(***************************************************************************)

\* C21: LwmaCalculateNextWorkRequired called with a null pindexLast, or with
\* a pindexLast at height 0, returns powLimit.GetCompact(): it does not
\* fail.
C21_NullOrGenesis ==
    (pow.done /\ (pow.pindexLast = NullIndex \/ pow.pindexLast.nHeight = 0))
    => /\ ~pow.crashed
       /\ pow.result = GetCompact(consensusParams.powLimit)

\* the lookup of the window start or of a block of the window fails
WindowBroken(c) ==
    /\ c.missing[1] <= c.missing[2]
    /\ c.missing[1] <= c.nHeight
    /\ c.missing[2] >= c.nHeight - LwmaN

\* C22: LwmaCalculateNextWorkRequired returns powLimit.GetCompact() whenever
\* pindexLast.height < N = 240, and whenever pindexLast.height >= 240 but
\* the lookup of the window start or of a block of the window fails.
C22_InsufficientWindow ==
    (/\ pow.done
     /\ pow.pindexLast # NullIndex
     /\ \/ pow.pindexLast.nHeight < LwmaN
        \/ WindowBroken(pow.pindexLast))
    => /\ ~pow.crashed
       /\ pow.result = GetCompact(consensusParams.powLimit)

\* at height 29000 with the last hundred ancestors only
C22_Witness ==
    /\ pow.done
    /\ pow.pindexLast # NullIndex
    /\ pow.pindexLast.nHeight = LwmaHeight
    /\ pow.pindexLast.missing = <<0, LwmaHeight - 100>>
    /\ pow.result = GetCompact(consensusParams.powLimit)

\* a block inside the window cannot be looked up, the window start can
C22_WitnessInside ==
    /\ pow.done
    /\ pow.pindexLast # NullIndex
    /\ pow.pindexLast.nHeight = LwmaHeight
    /\ pow.pindexLast.missing = <<LwmaHeight - 5, LwmaHeight - 5>>
    /\ pow.result = GetCompact(consensusParams.powLimit)

\* The window of a chain, b_0 the window start and b_1..b_N the blocks above
\* it, and the quantities of the LWMA written out block by block.
WindowTime(c, j) == AncestorTime(c, c.nHeight - LwmaN + j)

\* prevTime once b_j is passed: the latest of the timestamps of b_0..b_j.
\* In the chains looked at no block is stamped before a block more than
\* three places below it, so the latest of the last four is the latest.
PrevTime(c, j) ==
    LET near == {WindowTime(c, i) : i \in (IF j > 3 THEN j - 3 ELSE 0)..j}
    IN  CHOOSE m \in near : \A x \in near : x <= m

\* s_j = min(6T, max(1, t_j - prevTime))
SolveTime(c, j, T) ==
    LET d == PrevTime(c, j) - PrevTime(c, j - 1)
        atLeastOne == IF d > 1 THEN d ELSE 1
    IN  IF atLeastOne > 6 * T THEN 6 * T ELSE atLeastOne

\* the sum of j * s_j over lo..hi
RECURSIVE WeightedSolveTimes(_, _, _, _)
WeightedSolveTimes(c, T, lo, hi) ==
    IF lo = hi THEN lo * SolveTime(c, lo, T)
    ELSE WeightedSolveTimes(c, T, lo, (lo + hi) \div 2)
         + WeightedSolveTimes(c, T, (lo + hi) \div 2 + 1, hi)

\* S: N - 1 blocks below the tip with one target, and the tip's
SumOfTargets(c) ==
    Add256(Mul256(Target(c.fillBits), LwmaN - 1), Target(c.nBits))

\* encode(min(powLimit, floor(floor(S / N) * W / (k * T))))
LwmaFormula(c, params) ==
    LET T == params.nPowTargetSpacingV2
        k == (LwmaN * (LwmaN + 1) * T) \div 2
        W == WeightedSolveTimes(c, T, 1, LwmaN)
        quotient == Div256(Mul256(Div256(SumOfTargets(c), LwmaN), W), k * T)
    IN  IF Gt256(quotient, params.powLimit) THEN GetCompact(params.powLimit)
        ELSE GetCompact(quotient)

FullWindow ==
    /\ pow.done
    /\ pow.pindexLast # NullIndex
    /\ pow.pindexLast.nHeight >= LwmaN
    /\ ~WindowBroken(pow.pindexLast)

\* C23: for pindexLast.height >= N with a full window the result is
\* encode(min(powLimit, floor(floor(S/N) * W / (k*T)))), W the sum of
\* j * s_j with s_j = min(6T, max(1, t_j - prevTime)), t_j = max(b_j.time,
\* prevTime), prevTime starting at the time of the window start and moving
\* to t_j, S the sum of the targets, k = N(N+1)T/2: a timestamp lower than
\* its predecessor's never moves prevTime backwards.  Where T is 0 there is
\* no quotient and the result is the encoding of powLimit.
C23_LwmaFormula ==
    FullWindow
    => /\ ~pow.crashed
       /\ pow.result =
            IF consensusParams.nPowTargetSpacingV2 = 0
            THEN GetCompact(consensusParams.powLimit)
            ELSE LwmaFormula(pow.pindexLast, consensusParams)

\* a window with a block stamped 1000 seconds early among blocks 120 seconds
\* apart, the result below powLimit
C23_Witness ==
    /\ FullWindow
    /\ consensusParams.nPowTargetSpacingV2 > 0
    /\ pow.pindexLast.dip = 1000
    /\ pow.pindexLast.spacing = 120
    /\ pow.pindexLast.dipAt = pow.pindexLast.nHeight - 100
    /\ pow.result # GetCompact(consensusParams.powLimit)
    /\ pow.result # 0

\* every block of the window holds the same target and came exactly
\* nPowTargetSpacingV2 seconds after its predecessor
OnSchedule ==
    /\ FullWindow
    /\ consensusParams.nPowTargetSpacingV2 > 0
    /\ pow.pindexLast.nBits = pow.pindexLast.fillBits
    /\ pow.pindexLast.spacing = consensusParams.nPowTargetSpacingV2
    /\ pow.pindexLast.lastGap = consensusParams.nPowTargetSpacingV2
    /\ pow.pindexLast.dip = 0

\* C27: if all N = 240 blocks of the window carry the same target
\* X <= powLimit and every solve time equals T = nPowTargetSpacingV2,
\* LwmaCalculateNextWorkRequired returns the compact encoding of X, up to
\* what the encoding cuts off (read widely: a target no higher than X and
\* no lower than half of X).
C27_SteadyState ==
    OnSchedule
    => /\ ~pow.crashed
       /\ Le256(Target(pow.result), Target(pow.pindexLast.nBits))
       /\ Le256(Target(pow.pindexLast.nBits), Mul256(Target(pow.result), 2))


(***************************************************************************)
(* Properties of getnetworkhashps, checked under HashPSSpec.               *)
(***************************************************************************)

\* C28: under each of the main, test and regtest parameter sets
\* DifficultyAdjustmentInterval is a positive integer at every height, with
\* no division by zero, so that getnetworkhashps with a non-positive lookup
\* fails at no tip height.
C28_IntervalDefined ==
    (rpc.op = "getnetworkhashps" /\ rpc.lookup <= 0)
    => /\ ~rpc.fault
       /\ rpc.asked => rpc.interval > 0


(***************************************************************************)
(* Properties of the serialization of blocks.                              *)
(***************************************************************************)

\* C26: deserializing a block whose AuxPoW flag is set and whose proof
\* reads with a null parent hash fails: submitblock answers that the block
\* did not decode, and no block with that header goes further.  Checked
\* under Spec.
C26_NullParentMalformed ==
    (/\ rpc.op = "submitblock"
     /\ rpc.request.decodes
     /\ IsAuxpow(rpc.request)
     /\ rpc.request.auxpow = "null-parent")
    => /\ rpc.reply = JSONRPCError("RPC_DESERIALIZATION_ERROR",
                                   "Block decode failed")
       /\ ~rpc.processed


(***************************************************************************)
(* Further properties of the AuxPoW verification.                          *)
(***************************************************************************)

\* C24: the transaction the coinbase branch links to the parent header's
\* merkle root is the parent block's first transaction:
\* CheckAuxPowProofOfWork accepts a proof only if nIndex is 0.  Checked
\* under AuxSpec.
C24_CoinbaseIsFirst ==
    (auxcheck.op # "none" /\ auxcheck.result.ok)
    => auxcheck.block.m_auxpow.nIndex = 0


\* C25: under any interleaving of validations and connections, no two
\* accepted (connected) blocks carry the same parent hash, even when both
\* were verified before either was connected.  Checked under
\* ConcurrentSpec.
C25_NoDuplicateParents ==
    \A t, u \in ValidationThreads :
       (/\ auxcheck.pc[t] = "connected"
        /\ auxcheck.pc[u] = "connected"
        /\ GetHash(HeaderOf(auxcheck.block[t]))
             # GetHash(HeaderOf(auxcheck.block[u])))
       => GetParentBlockHash(auxcheck.block[t].m_auxpow)
            # GetParentBlockHash(auxcheck.block[u].m_auxpow)


\* C29: writing a block leaves it as it was: m_auxpow is present or absent
\* as before and holds what it held, so GetPoWHash() and the verdict of the
\* data-missing check of submitblock are unchanged, also for a block with
\* the flag set and no proof.  Checked under SerializeSpec.
C29_SerializeKeepsBlock ==
    (auxcheck.op = "serialize" /\ ~auxcheck.crashed)
    => /\ auxcheck.after.m_auxpow = auxcheck.before.m_auxpow
       /\ GetPoWHash(auxcheck.after) = GetPoWHash(auxcheck.before)
       /\ \A fShouldHaveAuxPow \in BOOLEAN :
            AuxPowVerdict(fShouldHaveAuxPow, IsAuxpow(auxcheck.after),
                          ~auxcheck.after.m_auxpow.isNull)
              = AuxPowVerdict(fShouldHaveAuxPow, IsAuxpow(auxcheck.before),
                              ~auxcheck.before.m_auxpow.isNull)


\* C30: a longpollid that getblocktemplate returned is taken as well-formed
\* by every later call, whatever the counter of the templates has become in
\* between: the call that carries it is never refused with
\* RPC_INVALID_PARAMETER.  Checked under LongPollSpec.
C30_IssuedIdAccepted ==
    (/\ longpoll.pc # "idle"
     /\ longpoll.issued # << >>
     /\ longpoll.lpval = StringValue(longpoll.issued))
    => ~(/\ longpoll.reply.kind = "error"
         /\ longpoll.reply.code = "RPC_INVALID_PARAMETER")

=============================================================================
